---- MODULE Spec2Model ----
(***************************************************************************)
(* A model of the ETF screening scripts of this repository:                *)
(*   analyzer_V12.py        regime gate, scan, sector dedup, lot scaling,  *)
(*                          history ledger                                 *)
(*   analyzer_V12_Elite.py  inline gate, scan, raw ledger append           *)
(*   analyzer_V9.py         PerformanceTracker.record_and_track            *)
(*   analyzer_V5.py / analyzer_V6.py   per-instrument loops                *)
(*   signal_validator.py / signal_validator_v2.py   validate               *)
(*                                                                         *)
(* Units.  Prices are integers in ticks of 0.0001 yuan, so that the        *)
(* 0.0001 the code adds to the peak is one tick; modelled closes are       *)
(* multiples of 100 ticks, which keeps close * 0.93 and close * 0.05       *)
(* integral.  Traded amounts are in yuan.  Money amounts that the code     *)
(* keeps as floats (theory_invest, dd) are exact rationals <<n, d>>.       *)
(* A pandas NaN is the value NaN; comparisons with it are false, as in     *)
(* IEEE arithmetic.  Dates are day numbers: the code compares ISO date     *)
(* strings, whose order is the order of the days.                          *)
(***************************************************************************)
EXTENDS Integers, Sequences, FiniteSets, TLC

VARIABLES
    prog,            \* which script this run executes
    pc,              \* position of the run
    todo,            \* the codes of glob's files not yet visited
    bench,           \* what the run read of the benchmark file
    last_file,       \* the file of the loop's latest iteration
    db,              \* fund_db of analyzer_V12 (code -> name, index)
    raw_candidates,  \* analyzer_V12.execute: raw_candidates
    unique_candidates, \* analyzer_V12.execute: unique_candidates
    final_show,      \* analyzer_V12.execute: final_show
    report,          \* which README the run wrote
    history,         \* HISTORY_FILE, signal_history.csv
    today,           \* the run's date
    multiplier,      \* analyzer_V5.run_analysis: multiplier, in percent
    results,         \* analyzer_V5.run_analysis: results
    total_exposure,  \* analyzer_V5.run_analysis: total_exposure, in 0.01 yuan
    trade_log,       \* TRADE_LOG_FILE of analyzer_V5: the signals log_signal wrote
    portfolio,       \* PORTFOLIO_FILE of analyzer_V6
    mkt_weight,      \* analyzer_V6.execute_system: mkt_weight, in percent
    new_signals,     \* analyzer_V6.execute_system: new_signals
    hold_monitor,    \* analyzer_V6.execute_system: hold_monitor
    runs,            \* runs of the scripts that write HISTORY_FILE, so far
    elite_pool,      \* validate: elite_pool, the codes of BACKTEST_REPORT's head
    rows_done,       \* validate: how many rows of df_h the loop has visited
    df_after,        \* validate: df_after of the loop's latest iteration
    df_sorted,       \* validate: the signal list of REPORT_FILE
    min_score_show,  \* analyzer_V12: the module global MIN_SCORE_SHOW
    closes,          \* indicator engines: the close column of the series, in ticks
    ind,             \* indicator engines: what was computed for the last bar
    table_data,      \* summary.generate_summary: the rows parsed from VALIDATION_FILE
    buy_list,        \* summary.generate_summary: buy_list, with the column of fingerprints
    position,        \* MultiFactorStrategy: self.position.size, in units
    bt_stop_price,   \* MultiFactorStrategy: self.stop_price
    order,           \* MultiFactorStrategy: the order the latest next() gave the broker
    bar,             \* MultiFactorStrategy: the bar the latest next() was called on
    cash             \* MultiFactorStrategy: self.broker.get_cash(), in ticks

v12vars == <<db, raw_candidates, unique_candidates, final_show, history>>
v5vars == <<multiplier, results, total_exposure, trade_log>>
v6vars == <<portfolio, mkt_weight, new_signals, hold_monitor>>
valvars == <<elite_pool, rows_done, df_after, df_sorted>>
cfgvars == <<min_score_show>>
seriesvars == <<closes, ind>>
sumvars == <<table_data, buy_list>>
btvars == <<position, bt_stop_price, order, bar, cash>>
vars == <<prog, pc, todo, bench, last_file, report, today, v12vars, v5vars, v6vars,
          runs, valvars, cfgvars, seriesvars, sumvars, btvars>>

(***************************************************************************)
(* Numbers                                                                 *)
(***************************************************************************)
NaN == -1

IsNaN(x) == x = NaN

\* a < b and a > b on floats: false when either side is NaN
Lt(a, b) == ~IsNaN(a) /\ ~IsNaN(b) /\ a < b
Gt(a, b) == ~IsNaN(a) /\ ~IsNaN(b) /\ a > b

\* ka * a > kb * b on floats
GtTimes(ka, a, kb, b) == ~IsNaN(a) /\ ~IsNaN(b) /\ ka * a > kb * b

Abs(x) == IF x < 0 THEN -x ELSE x

RECURSIVE GCD(_, _)
GCD(a, b) == IF b = 0 THEN Abs(a) ELSE GCD(b, a % b)

\* the rational n/d (d > 0) in lowest terms
Rat(n, d) == LET g == GCD(Abs(n), d) IN <<n \div g, d \div g>>

RAdd(x, y) == Rat(x[1] * y[2] + y[1] * x[2], x[2] * y[2])

\* a/b < c/d for b, d > 0, by continued fractions (no products, no overflow)
RECURSIVE FracLess(_, _, _, _)
FracLess(a, b, c, d) ==
    LET qa == a \div b
        qc == c \div d
        ra == a % b
        rc == c % d
    IN  IF qa # qc THEN qa < qc
        ELSE IF rc = 0 THEN FALSE
        ELSE IF ra = 0 THEN TRUE
        ELSE FracLess(d, rc, b, ra)

RLess(x, y) == FracLess(x[1], x[2], y[1], y[2])
REq(x, y) == ~RLess(x, y) /\ ~RLess(y, x)

\* floor(a * k / m) for a, k >= 0, m > 0, by doubling (a * k may exceed 2^31)
RECURSIVE MulDivMod(_, _, _)
MulDivMod(a, k, m) ==
    IF k = 0 THEN <<0, 0>>
    ELSE LET h  == MulDivMod(a, k \div 2, m)
             r2 == 2 * h[2] + (IF k % 2 = 1 THEN a % m ELSE 0)
             q2 == 2 * h[1] + (IF k % 2 = 1 THEN a \div m ELSE 0)
         IN  <<q2 + (r2 \div m), r2 % m>>

FloorMulDiv(a, k, m) == MulDivMod(a, k, m)[1]

\* Python's round(n/d) to the nearest integer, ties to even
RoundHalfEven(n, d) ==
    LET q == n \div d
        r == n % d
    IN  IF 2 * r < d THEN q
        ELSE IF 2 * r > d THEN q + 1
        ELSE IF q % 2 = 0 THEN q ELSE q + 1

(***************************************************************************)
(* analyzer_V12.py: configuration                                          *)
(***************************************************************************)
TOTAL_CAPITAL == 10000
SINGLE_MAX_WEIGHT_PCT == 25
MIN_AMOUNT == 50000000
MIN_SCORE_SHOW == 4
MIN_BARS == 40
STREAK_DAYS == 3

BENCHMARK == "510300"
Placeholder == "hangye/zhuti"   \* the label "行业/主题" of unmapped codes

None == [none |-> TRUE]

\* a float that may be NaN, or a column the engine does not compute
Value(v) == [kind |-> "num", v |-> v]
NaNValue == [kind |-> "nan", v |-> <<0, 1>>]
Absent == [kind |-> "absent", v |-> <<0, 1>>]
NoIndicators == [by |-> "none", dd |-> Absent, rsi |-> Absent]

\* self.stop_price = None, and a stop price in ticks
NoStop == [set |-> FALSE, v |-> 0]
StopAt(v) == [set |-> TRUE, v |-> v]

\* no order given, and no bar seen yet
NoOrder == [kind |-> "none", size |-> 0]
NoBarSeen == [close |-> 0, ma5 |-> 0, hi40 |-> 0, atr |-> 0, unsafe |-> FALSE, extra |-> 0]
IsNone(r) == "none" \in DOMAIN r

(***************************************************************************)
(* analyzer_V12.py: check_market_safe                                      *)
(* The benchmark input is the file's state and, when it can be read, the   *)
(* last close and the last value of rolling(20).mean(), which is NaN when  *)
(* the file has fewer than 20 rows or an unparsable close in the window.   *)
(***************************************************************************)
BenchInputs ==
    {[kind |-> "missing", close |-> NaN, ma20 |-> NaN],
     [kind |-> "error",   close |-> NaN, ma20 |-> NaN]}
    \cup {[kind |-> "ok", close |-> c, ma20 |-> 39000] :
             c \in {37000, 38000, 39000, 40000}}
    \cup {[kind |-> "ok", close |-> 39000, ma20 |-> NaN]}      \* under 20 rows

check_market_safe_unsafe_on_error(b) ==
    IF b.kind = "missing" THEN FALSE
    ELSE IF b.kind = "error" THEN FALSE
    ELSE IF Lt(b.close, b.ma20) THEN FALSE
    ELSE TRUE

check_market_safe_always(b) == TRUE

check_market_safe(b) ==
    IF b.kind = "missing" THEN TRUE              \* os.path.exists is false
    ELSE IF b.kind = "error" THEN TRUE           \* except Exception
    ELSE IF Lt(b.close, b.ma20) THEN FALSE
    ELSE TRUE

(***************************************************************************)
(* analyzer_V12.py: load_fund_db and the lookup db.get(code, default)      *)
(***************************************************************************)
Codes == {"159915", "512880", "513100"}
Sectors == {"bank", "chip"}

\* the label order sort_values(by='index') uses
IndexRank(label) ==
    CASE label = "bank" -> 1
      [] label = "chip" -> 2
      [] label = "gold" -> 3
      [] label = "oil" -> 4
      [] label = "rare" -> 5
      [] label = "wine" -> 6
      [] OTHER -> 7

DbEntry(name, index) == [name |-> name, index |-> index]

\* fund_db values load_fund_db can return: empty (no file, or the read
\* failed), or entries whose index is a sheet value or the placeholder
FundDbs ==
    {[c \in {} |-> DbEntry("", "")],
     [c \in Codes |-> DbEntry("etf", "bank")],
     [c \in Codes |-> DbEntry("etf", IF c = "159915" THEN "bank" ELSE "chip")]}

\* a lookup that files an unmapped code under a sheet label
db_get_sheet_label(d, code) ==
    IF code \in DOMAIN d THEN d[code] ELSE DbEntry("unmatched", "bank")

db_get(d, code) ==
    IF code \in DOMAIN d THEN d[code] ELSE DbEntry("unmatched", Placeholder)

(***************************************************************************)
(* analyzer_V12.py: analyze_signal on the last two rows that               *)
(* calculate_all_metrics produced.  A file input is                        *)
(*   kind  "ok", "unreadable" (pd.read_csv raises) or "badcols" (a column  *)
(*         analyze_signal indexes is absent: KeyError)                     *)
(*   len   the number of rows                                              *)
(*   last  the indicator values of the last row, prev_macd_hist that of    *)
(*         the row before; rsi in hundredths of a point, turnover in       *)
(*         thousandths of a percent                                        *)
(***************************************************************************)
b2i(b) == IF b THEN 1 ELSE 0

\* dd = (close - peak_40) / (peak_40 + 0.0001), as the rational it is
Drawdown(last) == <<last.close - last.peak_40, last.peak_40 + 1>>

BaseGate(last) ==
    /\ Gt(last.close, last.ma5)
    /\ 100 * Drawdown(last)[1] < (-4) * Drawdown(last)[2]      \* dd < -0.04

\* Score with the MACD condition worth two points
Score_macd_counts_twice(last) ==
    IF BaseGate(last)
    THEN 1 + 2 * b2i(last.macd_hist > last.prev_macd_hist)
           + b2i(Lt(last.rsi, 40 * 100))
           + b2i(GtTimes(105, last.lower_band, 100, last.close))
           + b2i(\/ GtTimes(10, last.amount, 11, last.avg_amount)
                 \/ GtTimes(10, last.turnover_val, 13, last.avg_turnover))
    ELSE 0

Score(last) ==
    IF BaseGate(last)
    THEN 1 + b2i(last.macd_hist > last.prev_macd_hist)
           + b2i(Lt(last.rsi, 40 * 100))
           + b2i(GtTimes(105, last.lower_band, 100, last.close))
           + b2i(\/ GtTimes(10, last.amount, 11, last.avg_amount)
                 \/ GtTimes(10, last.turnover_val, 13, last.avg_turnover))
    ELSE 0

\* the ATR stop without the 7% hard stop
StopPrice_atr_only(last) ==
    LET atr_val == IF IsNaN(last.atr) THEN (5 * last.close) \div 100 ELSE last.atr
    IN  last.close - 3 * atr_val

\* the 7% hard stop without the ATR stop
StopPrice_hard_stop_only(last) == (93 * last.close) \div 100

\* min(close - 3.0 * atr_val, close * 0.93)
StopPrice(last) ==
    LET atr_val == IF IsNaN(last.atr) THEN (5 * last.close) \div 100 ELSE last.atr
        a == last.close - 3 * atr_val
        h == (93 * last.close) \div 100
    IN  IF a < h THEN a ELSE h

\* theory_invest without the single-instrument cap
TheoryInvest_uncapped(close, stop) ==
    LET risk_money == (TOTAL_CAPITAL * 2) \div 100
        gap == IF close - stop > 10 THEN close - stop ELSE 10
    IN  Rat(risk_money * 10000, gap)

\* min(risk_money / max(close - stop, 0.001), TOTAL_CAPITAL * SINGLE_MAX_WEIGHT)
TheoryInvest(close, stop) ==
    LET risk_money == (TOTAL_CAPITAL * 2) \div 100
        gap == IF close - stop > 10 THEN close - stop ELSE 10      \* ticks
        uncapped == Rat(risk_money * 10000, gap)
        cap == <<(TOTAL_CAPITAL * SINGLE_MAX_WEIGHT_PCT) \div 100, 1>>
    IN  IF RLess(uncapped, cap) THEN uncapped ELSE cap

\* the last row after calculate_all_metrics: without a turnover column
\* turnover_val and avg_turnover are 0
calculate_all_metrics(f) ==
    IF f.turnover_col THEN f.last
    ELSE [f.last EXCEPT !.turnover_val = 0, !.avg_turnover = 0]

\* analyze_signal without the `if score >= MIN_SCORE_SHOW`
analyze_signal_no_threshold(f) ==
    LET last == calculate_all_metrics(f)
    IN  IF f.len < MIN_BARS THEN None
        ELSE IF Lt(last.avg_amount, MIN_AMOUNT) THEN None
        ELSE [score |-> Score(last), price |-> last.close,
              stop |-> StopPrice(last),
              theory_invest |-> TheoryInvest(last.close, StopPrice(last)),
              dd |-> <<100 * Drawdown(last)[1], Drawdown(last)[2]>>,
              rsi |-> last.rsi, avg_amount |-> last.avg_amount,
              turnover |-> last.turnover_val]

analyze_signal(f) ==
    LET last == calculate_all_metrics(f)
    IN  IF f.len < MIN_BARS THEN None
        ELSE IF Lt(last.avg_amount, MIN_AMOUNT) THEN None
        ELSE IF Score(last) >= min_score_show
             THEN [score |-> Score(last), price |-> last.close,
                   stop |-> StopPrice(last),
                   theory_invest |-> TheoryInvest(last.close, StopPrice(last)),
                   dd |-> <<100 * Drawdown(last)[1], Drawdown(last)[2]>>,
                   rsi |-> last.rsi, avg_amount |-> last.avg_amount,
                   turnover |-> last.turnover_val]
             ELSE None

(***************************************************************************)
(* analyzer_V12.py: execute, the sector dedup                              *)
(*   df_c.sort_values(by=['index','score','dd','avg_amount'],              *)
(*                    ascending=[True, False, False, False])               *)
(*   df_c.groupby('index').head(1)                                         *)
(* sort_values is a stable lexsort that puts NaN last in either direction. *)
(***************************************************************************)
AmountFirst(a, b) ==             \* descending, NaN last
    \/ ~IsNaN(a) /\ IsNaN(b)
    \/ ~IsNaN(a) /\ ~IsNaN(b) /\ a > b

\* a sorts strictly before b
SortBefore(a, b) ==
    \/ IndexRank(a.index) < IndexRank(b.index)
    \/ /\ a.index = b.index
       /\ \/ a.score > b.score
          \/ /\ a.score = b.score
             /\ \/ RLess(b.dd, a.dd)                  \* 'dd' descending
                \/ REq(a.dd, b.dd) /\ AmountFirst(a.avg_amount, b.avg_amount)

\* position of s[i] after a stable sort by the strict order Before
SortRank(Before(_, _), s, i) ==
    1 + Cardinality({j \in 1..Len(s) :
            \/ Before(s[j], s[i])
            \/ ~Before(s[i], s[j]) /\ j < i})

StableSort(Before(_, _), s) ==
    [k \in 1..Len(s) |-> s[CHOOSE i \in 1..Len(s) : SortRank(Before, s, i) = k]]

sort_values(s) == StableSort(SortBefore, s)

\* the subsequence of s at the positions P, in order
Pick(s, P) ==
    [k \in 1..Cardinality(P) |->
        s[CHOOSE p \in P : Cardinality({q \in P : q < p}) = k - 1]]

groupby_head_all(s) == s

\* groupby('index').head(1): the first row of each label, in row order
groupby_head(s) ==
    Pick(s, {k \in 1..Len(s) : \A j \in 1..(k - 1) : s[j].index # s[k].index})

unique_of(raw) == groupby_head(sort_values(raw))

(***************************************************************************)
(* analyzer_V12.py: execute, the two scale-and-floor passes                *)
(*   total_needed = sum(theory_invest)                                     *)
(*   scale_factor = min(1.0, TOTAL_CAPITAL / (total_needed + 0.001))       *)
(*   final_lots   = int((theory_invest * scale_factor) / price // 100)     *)
(*   if final_lots < 1: theory_invest = 0                                  *)
(***************************************************************************)
RECURSIVE TotalNeeded(_, _)
TotalNeeded(s, n) ==
    IF n = 0 THEN <<0, 1>> ELSE RAdd(TotalNeeded(s, n - 1), s[n].theory_invest)

\* scale_factor < 1.0, i.e. total_needed + 0.001 > TOTAL_CAPITAL
Scaled(total) == FracLess(TOTAL_CAPITAL * 1000 - 1, 1000, total[1], total[2])

\* the lots of theory_invest without the scale factor
FinalLots_unscaled(item, total) ==
    (100 * item.theory_invest[1]) \div (item.theory_invest[2] * item.price)

FinalLots(item, total) ==
    LET n == item.theory_invest[1]
        d == item.theory_invest[2]
    IN  IF Scaled(total)
        THEN FloorMulDiv(n * total[2], TOTAL_CAPITAL * 100000,
                         d * (1000 * total[1] + total[2])) \div item.price
        ELSE (100 * n) \div (d * item.price)

\* a pass that leaves theory_invest as it is
ScalePass_keeps_invest(s) ==
    LET total == TotalNeeded(s, Len(s))
    IN  [i \in 1..Len(s) |->
            LET lots == FinalLots(s[i], total)
                keep == [k \in DOMAIN s[i] \ {"final_lots"} |-> s[i][k]]
            IN  [k \in DOMAIN keep \cup {"final_lots"} |->
                    IF k = "final_lots" THEN lots ELSE keep[k]]]

ScalePass(s) ==
    LET total == TotalNeeded(s, Len(s))
    IN  [i \in 1..Len(s) |->
            LET lots == FinalLots(s[i], total)
                keep == [k \in DOMAIN s[i] \ {"final_lots"} |-> s[i][k]]
            IN  [k \in DOMAIN keep \cup {"final_lots"} |->
                    IF k = "final_lots" THEN lots
                    ELSE IF k = "theory_invest" /\ lots < 1 THEN <<0, 1>>
                    ELSE keep[k]]]

\* final_show without the filter
Allocated_all(s) == s

\* final_show before the report's sort: the allocations with final_lots >= 1
Allocated(s) == Pick(s, {k \in 1..Len(s) : s[k].final_lots >= 1})

(***************************************************************************)
(* HISTORY_FILE, signal_history.csv.  The file is its header (cols, in     *)
(* order) and its lines (rows), each line the sequence of its cells.       *)
(* pd.read_csv names the cells of a line by position, fills a short line   *)
(* with NaN, and raises ParserError on a line after the first data line    *)
(* that has more cells than expected.                                      *)
(***************************************************************************)
Str(x) == [t |-> "str", s |-> x, n |-> 0]
Num(x) == [t |-> "num", s |-> "", n |-> x]
Empty == [t |-> "nan", s |-> "", n |-> 0]

\* a float that may be NaN, as a cell
NumOrEmpty(x) == IF IsNaN(x) THEN Empty ELSE Num(x)

Range(q) == {q[i] : i \in 1..Len(q)}

Pos(cols, c) == CHOOSE i \in 1..Len(cols) : cols[i] = c

\* row[c] of a frame with the columns cols; NaN for a column it lacks
Cell(cols, row, c) ==
    IF c \in Range(cols) /\ Pos(cols, c) <= Len(row) THEN row[Pos(cols, c)] ELSE Empty

V12_COLS == <<"date", "code", "name", "index", "price", "stop", "rsi",
              "turnover", "dd", "score", "lots">>

NoFile == [exists |-> FALSE, cols |-> <<>>, rows |-> <<>>]

\* the empty DataFrame
NoFrame == [cols |-> <<>>, rows |-> <<>>]

\* the number of cells the parser expects of every line after the first
\* data line: the header's, or the first data line's when that is longer
Expected(h) ==
    IF h.rows # <<>> /\ Len(h.rows[1]) > Len(h.cols)
    THEN Len(h.rows[1]) ELSE Len(h.cols)

\* whether pd.read_csv parses the file
Readable(h) == \A i \in 1..Len(h.rows) : Len(h.rows[i]) <= Expected(h)

\* pd.read_csv of a readable file; when the lines are longer than the
\* header the leading cells become the index and the header names the rest
read_csv(h) ==
    LET shift == Expected(h) - Len(h.cols)
    IN  [cols |-> h.cols,
         rows |-> [i \in 1..Len(h.rows) |->
                     [k \in 1..Len(h.cols) |->
                         IF k + shift <= Len(h.rows[i])
                         THEN h.rows[i][k + shift] ELSE Empty]]]

\* pd.concat([a, b]): the columns of a, then the new ones of b
concat(a, b) ==
    LET cols == a.cols \o Pick(b.cols, {k \in 1..Len(b.cols) : b.cols[k] \notin Range(a.cols)})
        fit(df) == [i \in 1..Len(df.rows) |->
                      [k \in 1..Len(cols) |-> Cell(df.cols, df.rows[i], cols[k])]]
    IN  [cols |-> cols, rows |-> fit(a) \o fit(b)]

SameKey(cols, r, q) ==
    /\ Cell(cols, r, "date") = Cell(cols, q, "date")
    /\ Cell(cols, r, "code") = Cell(cols, q, "code")

\* drop_duplicates(subset=['date', 'code']): the first row of each key
drop_duplicates(df) ==
    [cols |-> df.cols,
     rows |-> Pick(df.rows, {k \in 1..Len(df.rows) :
                 \A j \in 1..(k - 1) : ~SameKey(df.cols, df.rows[j], df.rows[k])})]

\* DataFrame.to_csv(index=False)
to_csv(df) == [exists |-> TRUE, cols |-> df.cols, rows |-> df.rows]

\* one entry of new_entries: the fields rounded as save_history rounds them
\* (price, stop to 0.001 yuan; rsi to 0.1; turnover to 0.01; dd to 0.1)
NewEntry(s, day) ==
    <<Num(day), Str(s.code), Str(s.name), Str(s.index),
      Num(10 * RoundHalfEven(s.price, 10)),
      Num(10 * RoundHalfEven(s.stop, 10)),
      Num(RoundHalfEven(s.rsi, 10)),
      IF IsNaN(s.turnover) THEN Empty ELSE Num(RoundHalfEven(s.turnover, 10)),
      Num(RoundHalfEven(10 * s.dd[1], s.dd[2])),
      Num(s.score), Num(s.final_lots)>>

save_history(h, new_entries, day) ==
    IF new_entries = <<>> THEN h
    ELSE LET df_new == [cols |-> V12_COLS,
                        rows |-> [i \in 1..Len(new_entries) |->
                                     NewEntry(new_entries[i], day)]]
         IN  IF h.exists
             THEN IF Readable(h)
                  THEN to_csv(drop_duplicates(concat(read_csv(h), df_new)))
                  ELSE to_csv(df_new)                         \* except:
             ELSE to_csv(df_new)

\* check_streak with `date <= today`
check_streak_counts_today(h, code, day) ==
    IF ~h.exists THEN FALSE
    ELSE IF ~Readable(h) THEN FALSE
    ELSE LET df_h == read_csv(h)
         IN  \E i \in 1..Len(df_h.rows) :
                LET d == Cell(df_h.cols, df_h.rows[i], "date")
                IN  /\ d.t = "num"
                    /\ d.n >= day - STREAK_DAYS
                    /\ d.n <= day
                    /\ Cell(df_h.cols, df_h.rows[i], "code") = Str(code)

check_streak(h, code, day) ==
    IF ~h.exists THEN FALSE
    ELSE IF ~Readable(h) THEN FALSE                           \* except:
    ELSE LET df_h == read_csv(h)
         IN  \E i \in 1..Len(df_h.rows) :
                LET d == Cell(df_h.cols, df_h.rows[i], "date")
                IN  /\ d.t = "num"
                    /\ d.n >= day - STREAK_DAYS
                    /\ d.n < day
                    /\ Cell(df_h.cols, df_h.rows[i], "code") = Str(code)

(***************************************************************************)
(* Inputs of one analyzer_V12 run                                          *)
(***************************************************************************)
MaxFiles == 2        \* files glob returns in one run
MaxDay == 5          \* the run's date; stored dates are 1..MaxDay

V12Last(close, ma5, peak, avg, macd, amount) ==
    [close |-> close, ma5 |-> ma5, peak_40 |-> peak, avg_amount |-> avg,
     amount |-> amount, macd_hist |-> macd, prev_macd_hist |-> 1,
     rsi |-> 3004, lower_band |-> close, turnover_val |-> 0, avg_turnover |-> 0,
     atr |-> (2 * close) \div 100]

V12Snapshots ==
    {V12Last(20000, 19000, 24000, 80000000, 2, 160000000),    \* score 5
     V12Last(20000, 19000, 24000, 80000000, 2, 80000000),     \* score 4
     V12Last(60000, 59000, 64000, 80000000, 2, 80000000),     \* shallower drawdown
     V12Last(20000, 19000, 24000, 60000000, 0, 120000000),    \* thinner trading
     V12Last(20000, 19000, 24000, 80000000, 0, 80000000),     \* score 3
     V12Last(20000, 21000, 24000, 80000000, 2, 160000000),    \* below MA5
     V12Last(20000, 19000, 20000, 80000000, 2, 160000000),    \* no drawdown
     V12Last(20000, 19000, 24000, 40000000, 2, 80000000),     \* illiquid
     V12Last(20000, 19000, 24000, NaN, 2, 80000000)}          \* amount unparsable

\* the files have no turnover column
V12Files ==
    [kind : {"ok"}, len : {MIN_BARS}, turnover_col : {FALSE}, last : V12Snapshots]
    \cup [kind : {"ok"}, len : {MIN_BARS - 1}, turnover_col : {FALSE},
          last : {V12Last(20000, 19000, 24000, 80000000, 2, 160000000)}]
    \cup [kind : {"unreadable", "badcols"}, len : {MIN_BARS}, turnover_col : {FALSE},
          last : {V12Last(20000, 19000, 24000, 80000000, 2, 160000000)}]

FileCodes == Codes \cup {BENCHMARK}

\* what glob can return: files of distinct codes
FileSets == {F \in SUBSET FileCodes : Cardinality(F) <= MaxFiles}

\* what is kept of a visited file: its code, whether it reads, its length
FileSeen(code, f) ==
    [code |-> code, kind |-> f.kind, len |-> f.len, turnover_col |-> f.turnover_col]
NoFileSeen == [code |-> "", kind |-> "none", len |-> 0, turnover_col |-> TRUE]
NoBench == [kind |-> "none", close |-> NaN, ma20 |-> NaN]

\* the store before the run: absent, or written by an earlier run
StoredRow(day) ==
    <<Num(day), Str("159915"), Str("etf"), Str("bank"), Num(20000), Num(18600),
      Num(300), Num(0), Num(-167), Num(4), Num(7)>>

InitStores ==
    {NoFile}
    \cup {to_csv([cols |-> V12_COLS, rows |-> <<StoredRow(d)>>]) :
             d \in {MaxDay - 1, MaxDay}}

(***************************************************************************)
(* analyzer_V12.py: execute                                                *)
(***************************************************************************)
\* the gate, and on SAFE load_fund_db and glob
V12Start ==
    /\ prog = "V12" /\ pc = "start"
    /\ \E b \in BenchInputs, d \in FundDbs, files \in FileSets :
          /\ bench' = b
          /\ IF ~check_market_safe(b)
             THEN /\ pc' = "done"
                  /\ report' = "defensive"
                  /\ UNCHANGED <<todo, db>>
             ELSE /\ pc' = "scan"
                  /\ db' = d
                  /\ todo' = files
                  /\ UNCHANGED report
    /\ UNCHANGED <<cfgvars, seriesvars, sumvars, btvars, valvars, prog, last_file, today, raw_candidates, unique_candidates,
                   final_show, history, v5vars, v6vars, runs>>

\* one iteration of `for f in files`, on the file f of the code `code`
Scan(code, f) ==
    /\ raw_candidates' =
         IF code = BENCHMARK THEN raw_candidates            \* continue
         ELSE IF f.kind # "ok" THEN raw_candidates          \* except: continue
         ELSE LET res == analyze_signal(f)
                  info == db_get(db, code)
              IN  IF IsNone(res) THEN raw_candidates
                  ELSE Append(raw_candidates,
                         [k \in DOMAIN res \cup {"code", "name", "index"} |->
                            IF k = "code" THEN code
                            ELSE IF k = "name" THEN info.name
                            ELSE IF k = "index" THEN info.index
                            ELSE res[k]])
    /\ todo' = todo \ {code}
    /\ UNCHANGED <<cfgvars, seriesvars, sumvars, btvars, valvars, prog, pc, bench, db, unique_candidates, final_show,
                   report, history, today, v5vars, v6vars, runs>>

V12Scan ==
    /\ prog = "V12" /\ pc = "scan" /\ todo # {}
    /\ \E code \in todo, f \in V12Files :
          /\ last_file' = FileSeen(code, f)
          /\ Scan(code, f)

ReportBefore(a, b) ==            \* key (score, -dd, avg_amount), reverse=True
    \/ a.score > b.score
    \/ /\ a.score = b.score
       /\ \/ RLess(a.dd, b.dd)
          \/ REq(a.dd, b.dd) /\ Gt(a.avg_amount, b.avg_amount)

\* final_show with pos_percent (hundredths of a percent) and is_streak
Shown(s, h, day) ==
    [i \in 1..Len(s) |->
        [k \in DOMAIN s[i] \cup {"pos_percent", "is_streak"} |->
            IF k = "pos_percent" THEN (s[i].final_lots * s[i].price) \div 100
            ELSE IF k = "is_streak" THEN check_streak(h, s[i].code, day)
            ELSE s[i][k]]]

\* everything after the loop: dedup, scaling, save_history, the report
V12Finish ==
    /\ prog = "V12" /\ pc = "scan" /\ todo = {}
    /\ pc' = "done"
    /\ IF raw_candidates = <<>>
       THEN /\ report' = "nosignal"
            /\ UNCHANGED <<unique_candidates, final_show, history>>
       ELSE \E deduped \in {unique_of(raw_candidates)} :
            \E pass1 \in {ScalePass(deduped)} :
            \E pass2 \in {ScalePass(pass1)} :
            \E shown \in {Shown(Allocated(pass2), history, today)} :
               /\ unique_candidates' = pass2
               /\ history' = save_history(history, shown, today)
               /\ final_show' = StableSort(ReportBefore, shown)
               /\ report' = IF \E i \in 1..Len(shown) : IsNaN(shown[i].avg_amount)
                            THEN "crash"               \* int(nan) in the table
                            ELSE "board"
    /\ UNCHANGED <<cfgvars, seriesvars, sumvars, btvars, valvars, prog, todo, bench, last_file, db, raw_candidates, today,
                   v5vars, v6vars, runs>>

(***************************************************************************)
(* analyzer_V5.py.  A file is given by what run_analysis reads of it: the  *)
(* last bar's close, MA5, 20-bar peak, turnover, TO_MA10, atr, and the     *)
(* win rate (percent) calculate_history_win_rate returns for the series.   *)
(***************************************************************************)
TOTAL_ASSETS == 100000
MAX_SINGLE_POSITION_PCT == 30
MAX_TOTAL_EXPOSURE_PCT == 70
MIN_DRAWDOWN_PERMILLE == -45
ATR_STOP_MULTIPLIER == 2
WIN_RATE_THRESHOLD_PCT == 40
V5_WIN_LEN == 60

\* multiplier of get_market_weather, in percent
get_market_weather(b) ==
    IF b.kind = "missing" THEN 100
    ELSE IF b.kind = "error" THEN 100
    ELSE IF GtTimes(96, b.ma20, 100, b.close) THEN 50        \* bias < -4
    ELSE IF GtTimes(98, b.ma20, 100, b.close) THEN 80        \* bias < -2
    ELSE 100

\* int(min(raw_shares, limit_shares) // 100) * 100; with a NaN stop the
\* minimum is NaN and int() raises ValueError
calculate_shares(last_close, stop_price, mult) ==
    IF IsNaN(stop_price) THEN [raised |-> TRUE, shares |-> 0]
    ELSE IF last_close - stop_price <= 0 THEN [raised |-> FALSE, shares |-> 0]
    ELSE LET max_risk_amount == TOTAL_ASSETS \div 100
             raw_lots == (max_risk_amount * mult) \div (last_close - stop_price)
             limit_lots == (TOTAL_ASSETS * MAX_SINGLE_POSITION_PCT) \div last_close
         IN  [raised |-> FALSE,
              shares |-> 100 * (IF raw_lots < limit_lots THEN raw_lots ELSE limit_lots)]

V5Last(close, ma5, peak, turnover, atr, win) ==
    [close |-> close, MA5 |-> ma5, peak_20 |-> peak, turnover |-> turnover,
     TO_MA10 |-> 10, atr |-> atr, win_rate |-> win]

V5Files ==
    [kind : {"ok"}, len : {V5_WIN_LEN}, turnover_col : {TRUE},
     last : {V5Last(20000, 19000, 22000, 12, 400, 50),     \* buy
             V5Last(20000, 19000, 22000, 12, NaN, 50),     \* buy, atr undefined
             V5Last(20000, 19000, 22000, 8, 400, 50),      \* turnover too low
             V5Last(20000, 19000, 22000, 12, 400, 0),      \* win rate too low
             V5Last(20000, 21000, 22000, 12, 400, 50),     \* below MA5
             V5Last(20000, 19000, 20000, 12, 400, 50)}]    \* no drawdown
    \cup [kind : {"ok"}, len : {V5_WIN_LEN - 1}, turnover_col : {TRUE},
          last : {V5Last(20000, 19000, 22000, 12, 400, 50)}]
    \cup [kind : {"ok"}, len : {V5_WIN_LEN}, turnover_col : {FALSE},
          last : {V5Last(20000, 19000, 22000, NaN, 400, 50)}]
    \cup [kind : {"unreadable", "badcols"}, len : {V5_WIN_LEN}, turnover_col : {TRUE},
          last : {V5Last(20000, 19000, 22000, 12, 400, 50)}]

\* calculate_history_win_rate, in percent: 0.0 for fewer than 60 rows
calculate_history_win_rate(f) ==
    IF f.len < V5_WIN_LEN THEN 0 ELSE f.last.win_rate

\* a test that lets every position in
WithinExposure_always(exposure, position_value) == TRUE

\* (total_exposure + position_value) / TOTAL_ASSETS <= MAX_TOTAL_EXPOSURE
WithinExposure(exposure, position_value) ==
    exposure + position_value <= MAX_TOTAL_EXPOSURE_PCT * TOTAL_ASSETS

\* the body of the try block for one file: whether it raised, the entry for
\* results (None when the action stays "biekan") and the exposure it adds;
\* value and exposure are in 0.01 yuan
V5Skip == [raised |-> TRUE, entry |-> None, add |-> 0]

V5Decide(code, f, mult, exposure) ==
    IF f.kind # "ok" THEN V5Skip
    ELSE IF ~f.turnover_col THEN V5Skip                 \* KeyError: 'turnover'
    ELSE LET last == f.last
             win_rate == calculate_history_win_rate(f)
             dd_low == 1000 * (last.close - last.peak_20)
                          < MIN_DRAWDOWN_PERMILLE * last.peak_20
             to_ok == Gt(last.TO_MA10, 0) /\ ~IsNaN(last.turnover)
                         /\ last.turnover >= last.TO_MA10
             stop_val == IF IsNaN(last.atr) THEN NaN
                         ELSE last.close - ATR_STOP_MULTIPLIER * last.atr
             sh == calculate_shares(last.close, stop_val, mult)
             shares == sh.shares
             entry(action, n, st) ==
                 [code |-> code, action |-> action, price |-> last.close,
                  shares |-> n, stop |-> st, win_rate |-> win_rate,
                  value |-> last.close * (n \div 100)]
         IN  IF ~dd_low THEN [raised |-> FALSE, entry |-> None, add |-> 0]
             ELSE IF ~Gt(last.close, last.MA5)
                  THEN [raised |-> FALSE, entry |-> entry("wait_ma5", 0, 0), add |-> 0]
             ELSE IF ~(to_ok /\ win_rate >= WIN_RATE_THRESHOLD_PCT)
                  THEN [raised |-> FALSE, entry |-> entry("filtered", 0, 0), add |-> 0]
             ELSE IF sh.raised THEN V5Skip
             ELSE IF WithinExposure(exposure, last.close * (shares \div 100))
                  THEN [raised |-> FALSE, entry |-> entry("buy", shares, stop_val),
                        add |-> last.close * (shares \div 100)]
                  ELSE [raised |-> FALSE, entry |-> entry("full", 0, stop_val), add |-> 0]

\* the glob, and get_market_weather
V5Start ==
    /\ prog = "V5" /\ pc = "start"
    /\ \E b \in BenchInputs, files \in FileSets :
          IF files = {}
          THEN /\ pc' = "done"
               /\ report' = "nofiles"
               /\ UNCHANGED <<todo, bench, multiplier>>
          ELSE /\ pc' = "scan"
               /\ bench' = b
               /\ multiplier' = get_market_weather(b)
               /\ todo' = files
               /\ UNCHANGED report
    /\ UNCHANGED <<cfgvars, seriesvars, sumvars, btvars, valvars, prog, last_file, today, results, total_exposure, trade_log,
                   v12vars, v6vars, runs>>

\* one iteration of `for f in files`, on the file f of this code
V5Iteration(code, f) ==
    /\ \E d \in {IF code = BENCHMARK THEN V5Skip
                 ELSE V5Decide(code, f, multiplier, total_exposure)} :
          /\ last_file' = FileSeen(code, f)
          /\ IF d.raised                       \* continue / except: continue
             THEN UNCHANGED <<results, total_exposure>>
             ELSE /\ total_exposure' = total_exposure + d.add
                  /\ results' = IF IsNone(d.entry) THEN results
                                ELSE Append(results, d.entry)
    /\ todo' = todo \ {code}
    /\ UNCHANGED <<cfgvars, seriesvars, sumvars, btvars, valvars, prog, pc, bench, report, today, multiplier, trade_log,
                   v12vars, v6vars, runs>>

V5Scan ==
    /\ prog = "V5" /\ pc = "scan" /\ todo # {}
    /\ \E code \in todo, f \in V5Files : V5Iteration(code, f)

V5Before(a, b) ==                \* key (action == buy, value), reverse=True
    \/ a.action = "buy" /\ b.action # "buy"
    \/ (a.action = "buy") = (b.action = "buy") /\ a.value > b.value

\* the sort, the report, and log_signal for each buy
V5Finish ==
    /\ prog = "V5" /\ pc = "scan" /\ todo = {}
    /\ pc' = "done"
    /\ \E sorted \in {StableSort(V5Before, results)} :
          /\ results' = sorted
          /\ trade_log' = trade_log \o
                Pick(sorted, {k \in 1..Len(sorted) : sorted[k].action = "buy"})
    /\ report' = "manual"
    /\ UNCHANGED <<cfgvars, seriesvars, sumvars, btvars, valvars, prog, todo, bench, last_file, today, multiplier, total_exposure,
                   v12vars, v6vars, runs>>

(***************************************************************************)
(* analyzer_V6.py.  A file is given by its number of bars, whether it has  *)
(* a turnover column, and the values the loop reads of its last bars.      *)
(***************************************************************************)
MAX_HOLD_COUNT == 5
MIN_DAILY_AMOUNT == 50000000
RISK_PER_TRADE_BP == 150
ETF_DD_THRESHOLD_PCT == -6
V6_MIN_LEN == 30
V6_WARMUP == 60

\* mkt_weight of get_market_sentiment, in percent; load_data turns a read
\* failure into an empty frame, which has fewer than 20 rows
get_market_sentiment(b) ==
    IF b.kind = "missing" THEN 100
    ELSE IF b.kind = "error" THEN 100
    ELSE IF GtTimes(100, b.close, 102, b.ma20) THEN 120      \* bias > 0.02
    ELSE IF GtTimes(98, b.ma20, 100, b.close) THEN 60        \* bias < -0.02
    ELSE 100

\* a value of the portfolio's code column as pd.read_csv returns it: a
\* column of digit strings is parsed as integers
CodeDigits == [c \in FileCodes |-> TRUE]
read_code(text) ==
    IF CodeDigits[text] THEN [type |-> "int", text |-> text]
    ELSE [type |-> "str", text |-> text]

\* the file name's code, a str
file_code(text) == [type |-> "str", text |-> text]

current_holds(p) == [i \in 1..Len(p) |-> read_code(p[i].code)]

InHolds(code, holds) == \E i \in 1..Len(holds) : holds[i] = file_code(code)

\* whether calculate_indicators added the indicator columns
HasIndicators(f) == f.len >= V6_WARMUP

\* calculate_indicators raises KeyError on a frame without turnover
IndicatorsRaise(f) == f.len >= V6_WARMUP /\ ~f.turnover_col

\* analyze_etf_logic on a frame with the indicator columns
analyze_etf_logic(last) ==
    LET cond_price == Gt(last.close, last.MA5)
        cond_dd == 100 * (last.close - last.peak_20) < ETF_DD_THRESHOLD_PCT * last.peak_20
        cond_liq == ~IsNaN(last.AMT_MA5) /\ last.AMT_MA5 >= MIN_DAILY_AMOUNT
        score == b2i(Gt(last.RSI, 40 * 100))
                 + b2i(last.MACD_Hist > last.prev_MACD_Hist)
                 + b2i(GtTimes(10, last.turnover, 11, last.TO_MA5))
    IN  IF cond_price /\ cond_dd /\ cond_liq
        THEN [decision |-> IF score >= 2 THEN "enter" ELSE "observe", score |-> score]
        ELSE [decision |-> "watch", score |-> 0]

check_exit_conditions(last, p_row) ==
    (IF last.close <= p_row.stop_price THEN <<"stop">> ELSE <<>>)
    \o (IF Lt(last.close, last.MA10) THEN <<"below_ma10">> ELSE <<>>)
    \o (IF last.MACD_Hist < last.prev_MACD_Hist /\ Gt(last.RSI, 65 * 100)
        THEN <<"momentum">> ELSE <<>>)

\* the entry appended to new_signals; raised when int() is given NaN
V6Signal(code, last, d, weight) ==
    IF IsNaN(last.atr) THEN [raised |-> TRUE]
    ELSE LET atr_stop == last.close - 2 * last.atr
             ma_stop == (95 * last.MA10) \div 100
             stop_price == IF ma_stop < atr_stop THEN ma_stop ELSE atr_stop
             min_gap == (15 * last.close) \div 1000
             risk_gap == IF min_gap > last.close - stop_price
                         THEN min_gap ELSE last.close - stop_price
             risk_cash == (TOTAL_ASSETS \div 10000) * RISK_PER_TRADE_BP * weight
         IN  [raised |-> FALSE, code |-> code, decision |-> d.decision,
              roc20 |-> last.ROC20, score |-> d.score, price |-> last.close,
              shares |-> 100 * (risk_cash \div risk_gap),
              stop |-> 10 * RoundHalfEven(stop_price, 10)]

V6Last(close, ma5, peak, rsi, macd, turnover, atr, roc) ==
    [close |-> close, MA5 |-> ma5, MA10 |-> 20000, peak_20 |-> peak,
     AMT_MA5 |-> 80000000, RSI |-> rsi, MACD_Hist |-> macd, prev_MACD_Hist |-> 1,
     turnover |-> turnover, TO_MA5 |-> 10, atr |-> atr, ROC20 |-> roc]

V6Files ==
    [kind : {"ok"}, len : {V6_WARMUP}, turnover_col : {TRUE},
     last : {V6Last(20000, 19000, 22000, 5000, 2, 12, 400, -300),   \* enter
             V6Last(20000, 19000, 22000, 5000, 0, 8, 400, -500),    \* observe
             V6Last(20000, 19000, 22000, 5000, 2, 12, NaN, -300),   \* atr undefined
             V6Last(20000, 21000, 22000, 5000, 2, 12, 400, -300),   \* below MA5
             V6Last(20000, 19000, 20000, 5000, 2, 12, 400, 200)}]   \* no drawdown
    \cup [kind : {"ok"}, len : {V6_MIN_LEN - 1, V6_MIN_LEN, V6_WARMUP - 1},
          turnover_col : {TRUE},
          last : {V6Last(20000, 19000, 22000, 5000, 2, 12, 400, -300)}]
    \cup [kind : {"ok"}, len : {V6_WARMUP}, turnover_col : {FALSE},
          last : {V6Last(20000, 19000, 22000, 5000, 2, 12, 400, -300)}]
    \cup [kind : {"unreadable"}, len : {V6_WARMUP}, turnover_col : {TRUE},
          last : {V6Last(20000, 19000, 22000, 5000, 2, 12, 400, -300)}]

Portfolios ==
    {<<>>, <<[code |-> "159915", buy_price |-> 19000, shares |-> 1000,
              stop_price |-> 18000]>>}

\* the portfolio file, get_market_sentiment, and the glob
V6Start ==
    /\ prog = "V6" /\ pc = "start"
    /\ \E dir \in BOOLEAN, b \in BenchInputs, files \in FileSets :
          IF ~dir
          THEN /\ pc' = "done"
               /\ report' = "nodir"
               /\ UNCHANGED <<todo, bench, mkt_weight>>
          ELSE /\ pc' = "scan"
               /\ bench' = b
               /\ mkt_weight' = get_market_sentiment(b)
               /\ todo' = files
               /\ UNCHANGED report
    /\ UNCHANGED <<cfgvars, seriesvars, sumvars, btvars, valvars, prog, last_file, today, portfolio, new_signals, hold_monitor,
                   v12vars, v5vars, runs>>

\* one iteration of `for f in glob.glob(...)`; nothing in it is caught, so
\* an exception ends execute_system with a traceback
V6Scan ==
    /\ prog = "V6" /\ pc = "scan" /\ todo # {}
    /\ \E code \in todo, f \in V6Files :
        /\ last_file' = FileSeen(code, f)
        /\
          IF code = BENCHMARK \/ f.kind = "unreadable" \/ f.len < V6_MIN_LEN
          THEN /\ todo' = todo \ {code}                              \* continue
               /\ UNCHANGED <<pc, report, new_signals, hold_monitor>>
          ELSE IF IndicatorsRaise(f)
          THEN /\ pc' = "crashed"
               /\ report' = "traceback"
               /\ UNCHANGED <<todo, new_signals, hold_monitor>>
          ELSE IF InHolds(code, current_holds(portfolio))
          THEN IF ~HasIndicators(f)                             \* last['MA10']
               THEN /\ pc' = "crashed"
                    /\ report' = "traceback"
                    /\ UNCHANGED <<todo, new_signals, hold_monitor>>
               ELSE \E p_row \in {portfolio[CHOOSE i \in 1..Len(portfolio) :
                                     portfolio[i].code = code]} :
                       /\ hold_monitor' = Append(hold_monitor,
                             [code |-> code,
                              profit |-> Rat(100 * (f.last.close - p_row.buy_price),
                                             p_row.buy_price),
                              price |-> f.last.close, stop |-> p_row.stop_price,
                              status |-> check_exit_conditions(f.last, p_row),
                              shares |-> p_row.shares])
                       /\ todo' = todo \ {code}
                       /\ UNCHANGED <<pc, report, new_signals>>
          ELSE IF ~HasIndicators(f)                             \* last['MA5']
          THEN /\ pc' = "crashed"
               /\ report' = "traceback"
               /\ UNCHANGED <<todo, new_signals, hold_monitor>>
          ELSE \E d \in {analyze_etf_logic(f.last)} :
               \E sig \in {V6Signal(code, f.last, d, mkt_weight)} :
                  IF d.decision = "watch"
                  THEN /\ todo' = todo \ {code}
                       /\ UNCHANGED <<pc, report, new_signals, hold_monitor>>
                  ELSE IF sig.raised
                  THEN /\ pc' = "crashed"
                       /\ report' = "traceback"
                       /\ UNCHANGED <<todo, new_signals, hold_monitor>>
                  ELSE /\ new_signals' = Append(new_signals,
                              [k \in DOMAIN sig \ {"raised"} |-> sig[k]])
                       /\ todo' = todo \ {code}
                       /\ UNCHANGED <<pc, report, hold_monitor>>
    /\ UNCHANGED <<cfgvars, seriesvars, sumvars, btvars, valvars, prog, bench, today, portfolio, mkt_weight, v12vars, v5vars, runs>>

V6Before(a, b) ==                \* key (roc20, score), reverse=True
    \/ a.roc20 > b.roc20
    \/ a.roc20 = b.roc20 /\ a.score > b.score

\* the sort, the cut to available_slots, and the printed report
V6Finish ==
    /\ prog = "V6" /\ pc = "scan" /\ todo = {}
    /\ pc' = "done"
    /\ \E available_slots \in {MAX_HOLD_COUNT - Len(current_holds(portfolio))} :
       \E sorted \in {StableSort(V6Before, new_signals)} :
          new_signals' = IF available_slots > 0
                         THEN SubSeq(sorted, 1,
                                 IF Len(sorted) < available_slots
                                 THEN Len(sorted) ELSE available_slots)
                         ELSE <<>>
    /\ report' = "board"
    /\ UNCHANGED <<cfgvars, seriesvars, sumvars, btvars, valvars, prog, todo, bench, last_file, today, portfolio, mkt_weight,
                   hold_monitor, v12vars, v5vars, runs>>

(***************************************************************************)
(* Specification of the analyzers' runs                                    *)
(***************************************************************************)
Progs == {"V12", "V5", "V6"}

Init ==
    /\ prog \in Progs
    /\ pc = "start"
    /\ todo = {}
    /\ bench = NoBench
    /\ last_file = NoFileSeen
    /\ report = "none"
    /\ today = MaxDay
    /\ db = [c \in {} |-> DbEntry("", "")]
    /\ raw_candidates = <<>>
    /\ unique_candidates = <<>>
    /\ final_show = <<>>
    /\ history \in (IF prog = "V12" THEN InitStores ELSE {NoFile})
    /\ multiplier = 100
    /\ results = <<>>
    /\ total_exposure = 0
    /\ trade_log = <<>>
    /\ portfolio \in (IF prog = "V6" THEN Portfolios ELSE {<<>>})
    /\ mkt_weight = 100
    /\ new_signals = <<>>
    /\ hold_monitor = <<>>
    /\ runs = 0
    /\ elite_pool = {}
    /\ rows_done = 0
    /\ df_after = <<>>
    /\ df_sorted = <<>>
    /\ min_score_show = MIN_SCORE_SHOW
    /\ closes = <<>>
    /\ ind = NoIndicators
    /\ table_data = <<>>
    /\ buy_list = <<>>
    /\ position = 0
    /\ bt_stop_price = NoStop
    /\ order = NoOrder
    /\ bar = NoBarSeen
    /\ cash = 0

Next ==
    \/ V12Start
    \/ V12Scan
    \/ V12Finish
    \/ V5Start
    \/ V5Scan
    \/ V5Finish
    \/ V6Start
    \/ V6Scan
    \/ V6Finish

Spec == Init /\ [][Next]_vars

(***************************************************************************)
(* Properties of the analyzers' runs                                       *)
(***************************************************************************)
GateUnsafe(b) == Lt(b.close, b.ma20)

\* C1: in analyzer_V12.execute, when the benchmark's latest close is below
\* its 20-bar moving average the run ends at once in defensive mode: the
\* allocation stays empty and the history store is left as it was.
C1_UnsafeGateIsDefensive ==
    /\ [][(prog = "V12" /\ pc = "start" /\ GateUnsafe(bench'))
            => /\ pc' = "done"
               /\ report' = "defensive"
               /\ final_show' = <<>>
               /\ raw_candidates' = <<>>
               /\ history' = history]_vars
    /\ [](prog = "V12" /\ GateUnsafe(bench)
            => pc = "done" /\ report = "defensive" /\ final_show = <<>>)

C1_Witness ==
    /\ prog = "V12" /\ pc = "done" /\ report = "defensive"
    /\ GateUnsafe(bench) /\ history.exists /\ final_show = <<>>

\* the documented order of preference inside a sector group: a is preferred
\* to b
Preferred(a, b) ==
    \/ a.score > b.score
    \/ /\ a.score = b.score
       /\ \/ RLess(a.dd, b.dd)
          \/ REq(a.dd, b.dd) /\ Gt(a.avg_amount, b.avg_amount)

Deduped == prog = "V12" /\ pc = "done" /\ raw_candidates # <<>>

\* C2: the candidate the dedup step keeps for a sector has the highest
\* score of its group; among equal scores the deepest drawdown; among
\* those the highest average traded amount: no raw candidate of the same
\* sector is preferred to the kept one.
C2_KeptIsBestOfSector ==
    Deduped =>
        \A k \in 1..Len(unique_candidates) : \A i \in 1..Len(raw_candidates) :
            raw_candidates[i].index = unique_candidates[k].index
                => ~Preferred(raw_candidates[i], unique_candidates[k])

\* C3: after the dedup step unique_candidates holds exactly one candidate
\* for each sector label of raw_candidates, and none for any other label.
C3_OnePerSector ==
    Deduped =>
        /\ \A i \in 1..Len(raw_candidates) :
              Cardinality({k \in 1..Len(unique_candidates) :
                  unique_candidates[k].index = raw_candidates[i].index}) = 1
        /\ \A k \in 1..Len(unique_candidates) :
              \E i \in 1..Len(raw_candidates) :
                  raw_candidates[i].index = unique_candidates[k].index

C3_Witness ==
    /\ Deduped
    /\ Len(raw_candidates) = 2
    /\ raw_candidates[1].index = raw_candidates[2].index
    /\ raw_candidates[1].code # raw_candidates[2].code
    /\ Len(unique_candidates) = 1

\* the candidate pool of the running analyzer
Pool ==
    IF prog = "V12" THEN raw_candidates
    ELSE IF prog = "V5" THEN results
    ELSE new_signals \o hold_monitor

InLoop == pc = "scan" /\ todo # {}

\* C8: in the per-instrument loop of every analyzer an instrument that
\* fails is only left out of the pool: the loop goes on to the next file,
\* and the run ends with its report, never with a traceback.
C8_FailureSkipsOneInstrument ==
    /\ [][InLoop => /\ pc' = "scan"
                    /\ todo' = todo \ {last_file'.code}
                    /\ (last_file'.kind # "ok" => Pool' = Pool)]_vars
    /\ [](report \notin {"traceback", "crash"})

\* the longest window the analyzer's indicators need
WarmUp == IF prog = "V12" THEN MIN_BARS ELSE V6_WARMUP

\* C9: an instrument with fewer bars than the warm-up (40 in analyzer_V12,
\* 60 in analyzer_V6) is skipped: it adds no signal and raises no error.
C9_ShortSeriesSkipped ==
    [][(InLoop /\ prog \in {"V12", "V6"}
          /\ last_file'.kind = "ok" /\ last_file'.len < WarmUp)
         => pc' = "scan" /\ Pool' = Pool /\ report' = report]_vars

\* C10: when the benchmark file is missing or cannot be read,
\* check_market_safe returns SAFE and execute goes on to the scan.
C10_MissingBenchmarkFailsOpen ==
    /\ [][(prog = "V12" /\ pc = "start" /\ bench'.kind \in {"missing", "error"})
            => pc' = "scan" /\ report' = report]_vars
    /\ [](prog = "V12" /\ bench.kind \in {"missing", "error"}
            => report \notin {"defensive", "traceback"})

C10_Witness ==
    /\ prog = "V12" /\ bench.kind = "missing"
    /\ pc = "done" /\ report = "board" /\ final_show # <<>>

(***************************************************************************)
(* The writers of HISTORY_FILE: save_history of analyzer_V12, the ledger   *)
(* append of analyzer_V12_Elite.analyze, and                               *)
(* PerformanceTracker.record_and_track of analyzer_V9.                     *)
(***************************************************************************)
MaxRuns == 3         \* runs of the writers in one behaviour
KEEP_LAST == 50

LedgerCodes == {"159915", "512880"}

\* the allocations a run of analyzer_V12 hands to save_history
Allocation(code) ==
    [code |-> code, name |-> "etf", index |-> "bank", price |-> 20000,
     stop |-> 18600, rsi |-> 3004, turnover |-> 0, dd |-> <<-400000, 24001>>,
     score |-> 4, final_lots |-> 7]

CodeLists == {<<>>, <<"159915">>, <<"159915", "512880">>}

\* what analyzer_V12_Elite can read of the benchmark file
LedgerBench ==
    {[kind |-> "missing", close |-> NaN, ma20 |-> NaN],
     [kind |-> "error",   close |-> NaN, ma20 |-> NaN],
     [kind |-> "ok", close |-> 40000, ma20 |-> 39000],
     [kind |-> "ok", close |-> 38000, ma20 |-> 39000],
     [kind |-> "ok", close |-> 39000, ma20 |-> NaN]}          \* under 20 rows

(* analyzer_V12_Elite.analyze *)
ELITE_HEADER == <<"date", "code", "name", "entry_price", "index", "price", "stop",
                  "rsi", "dd", "score", "lots", "pos_pct", "turnover">>

\* a percentage written as text, "-16.67%"
Pct(x) == [t |-> "str", s |-> "%", n |-> x]

\* is_safe = curr_b >= ma20
EliteSafe(b) == ~IsNaN(b.close) /\ ~IsNaN(b.ma20) /\ b.close >= b.ma20

EliteLast(close, ma5, peak, atr) ==
    [close |-> close, ma5 |-> ma5, hi40 |-> peak, atr |-> atr]

EliteFiles ==
    [kind : {"ok"}, len : {MIN_BARS},
     last : {EliteLast(20000, 19000, 24000, 400),       \* signal
             EliteLast(20000, 19000, 24000, NaN),       \* signal, atr undefined
             EliteLast(20000, 21000, 24000, 400)}]      \* below MA5
    \cup [kind : {"ok"}, len : {MIN_BARS - 1}, last : {EliteLast(20000, 19000, 24000, 400)}]
    \cup [kind : {"unreadable"}, len : {MIN_BARS}, last : {EliteLast(20000, 19000, 24000, 400)}]

\* the body of the try block for one file: None, or the entry for results
EliteSignal(code, f, day) ==
    IF f.kind # "ok" THEN None
    ELSE IF f.len < MIN_BARS THEN None
    ELSE LET curr_p == f.last.close
             dd_low == 100 * (curr_p - f.last.hi40) < (-4) * f.last.hi40
             a == curr_p - 3 * f.last.atr
             h == (93 * curr_p) \div 100
             stop_p == IF IsNaN(f.last.atr) THEN NaN ELSE IF a < h THEN a ELSE h
         IN  IF Gt(curr_p, f.last.ma5) /\ dd_low
             THEN [date |-> day, code |-> code, name |-> "etf",
                   price |-> 10 * RoundHalfEven(curr_p, 10),
                   stop |-> IF IsNaN(stop_p) THEN NaN ELSE 10 * RoundHalfEven(stop_p, 10),
                   dd |-> RoundHalfEven(10000 * (curr_p - f.last.hi40), f.last.hi40)]
             ELSE None

\* the line written for one entry of results
EliteLine(r) ==
    <<Num(r.date), Str(r.code), Str(r.name), Num(r.price), Str("index"), Num(r.price),
      NumOrEmpty(r.stop), Num(0), Pct(r.dd), Num(4), Empty, Empty, Empty>>

\* open(HISTORY_FILE, 'a'): the header if the file is new, then the lines
elite_append(h, res) ==
    [exists |-> TRUE,
     cols |-> IF h.exists THEN h.cols ELSE ELITE_HEADER,
     rows |-> h.rows \o [i \in 1..Len(res) |-> EliteLine(res[i])]]

\* results of the scan over the files, in the order codes
RECURSIVE EliteScan(_, _, _)
EliteScan(codes, files, day) ==
    IF codes = <<>> THEN <<>>
    ELSE LET r == EliteSignal(Head(codes), files[Head(codes)], day)
         IN  (IF IsNone(r) THEN <<>> ELSE <<r>>) \o EliteScan(Tail(codes), files, day)

(* analyzer_V9.py: PerformanceTracker.record_and_track *)
V9_COLS == <<"date", "code", "name", "entry_price", "status">>

tail(df, n) ==
    [cols |-> df.cols,
     rows |-> IF Len(df.rows) <= n THEN df.rows
              ELSE SubSeq(df.rows, Len(df.rows) - n + 1, Len(df.rows))]

\* DataFrame.at[idx, c] = v on one row of a frame that has the column c
SetCell(cols, row, c, v) == [k \in 1..Len(cols) |-> IF cols[k] = c THEN v ELSE row[k]]

\* the cell of 'return': round(ret * 100, 2), NaN without an entry price
ReturnCell(entry, current_price) ==
    IF entry.t # "num" THEN Empty
    ELSE Num(RoundHalfEven(10000 * (current_price - entry.n), entry.n))

\* prices[code] is the last close of the code's data file, NaN without file
record_and_track(h, current_signals, prices, day) ==
    IF h.exists /\ ~Readable(h) THEN [raised |-> TRUE, store |-> h]
    ELSE LET history_df == IF h.exists THEN read_csv(h) ELSE NoFrame
             new_records ==
                 [cols |-> V9_COLS,
                  rows |-> [i \in 1..Len(current_signals) |->
                              <<Num(day), Str(current_signals[i]), Str("etf"),
                                Num(20000), Str("tracking")>>]]
             df == IF current_signals # <<>> THEN concat(history_df, new_records)
                   ELSE history_df
             code_of(row) == Cell(df.cols, row, "code")
             priced(row) == code_of(row).t = "str" /\ code_of(row).s \in DOMAIN prices
                              /\ ~IsNaN(prices[code_of(row).s])
             entry_of(row) == Cell(df.cols, row, "entry_price")
         IN  IF df.rows = <<>> THEN [raised |-> FALSE, store |-> h]
             ELSE IF \E i \in 1..Len(df.rows) :
                        /\ priced(df.rows[i])
                        /\ \/ "entry_price" \notin Range(df.cols)     \* KeyError
                           \/ entry_of(df.rows[i]).t = "str"           \* TypeError
                           \/ Cell(df.cols, df.rows[i], "date").t # "num"
                  THEN [raised |-> TRUE, store |-> h]
             ELSE LET any == \E i \in 1..Len(df.rows) : priced(df.rows[i])
                      cols == IF any
                              THEN concat(df, [cols |-> <<"current_price", "return">>,
                                               rows |-> <<>>]).cols
                              ELSE df.cols
                      wide(row) == [k \in 1..Len(cols) |-> Cell(df.cols, row, cols[k])]
                      tracked(row) ==
                          IF priced(row)
                          THEN SetCell(cols,
                                 SetCell(cols, wide(row), "current_price",
                                         Num(10 * RoundHalfEven(prices[code_of(row).s], 10))),
                                 "return",
                                 ReturnCell(entry_of(row), prices[code_of(row).s]))
                          ELSE wide(row)
                  IN  [raised |-> FALSE,
                       store |-> to_csv(tail([cols |-> cols,
                                              rows |-> [i \in 1..Len(df.rows) |->
                                                          tracked(df.rows[i])]],
                                             KEEP_LAST))]

\* the data files of one run of analyzer_V12_Elite: the codes in glob's
\* order and each code's file
SignalFile == [kind |-> "ok", len |-> MIN_BARS, last |-> EliteLast(20000, 19000, 24000, 400)]

EliteInputs ==
    {[codes |-> <<>>, files |-> [c \in LedgerCodes |-> SignalFile]],
     [codes |-> <<"159915", "512880">>, files |-> [c \in LedgerCodes |-> SignalFile]]}
    \cup {[codes |-> <<"159915">>, files |-> [c \in LedgerCodes |-> f]] : f \in EliteFiles}

PriceData ==
    {[c \in LedgerCodes |-> NaN], [c \in LedgerCodes |-> 19000],
     [c \in LedgerCodes |-> 21000]}

\* one call of save_history, from a run of analyzer_V12.execute
LedgerSaveHistory ==
    /\ prog = "ledger" /\ runs < MaxRuns
    /\ \E codes \in CodeLists :
          history' = save_history(history,
                        [i \in 1..Len(codes) |-> Allocation(codes[i])], today)
    /\ report' = "saved"
    /\ runs' = runs + 1
    /\ UNCHANGED <<cfgvars, seriesvars, sumvars, btvars, valvars, prog, pc, todo, bench, last_file, today, db, raw_candidates,
                   unique_candidates, final_show, v5vars, v6vars>>

\* one run of analyzer_V12_Elite.analyze
LedgerEliteAnalyze ==
    /\ prog = "ledger" /\ runs < MaxRuns
    /\ \E b \in LedgerBench, in \in EliteInputs :
          /\ bench' = b
          /\ IF b.kind = "missing"
             THEN /\ report' = "elite_nobench"                  \* return
                  /\ UNCHANGED <<results, history>>
             ELSE IF b.kind = "error"
             THEN /\ report' = "traceback"                      \* pd.read_csv
                  /\ UNCHANGED <<results, history>>
             ELSE \E res \in {EliteScan(in.codes, in.files, today)} :
                     /\ results' = res
                     /\ history' = IF res # <<>> /\ EliteSafe(b)
                                   THEN elite_append(history, res) ELSE history
                     /\ report' = IF EliteSafe(b) THEN "elite_safe" ELSE "elite_risk"
    /\ runs' = runs + 1
    /\ UNCHANGED <<cfgvars, seriesvars, sumvars, btvars, valvars, prog, pc, todo, last_file, today, db, raw_candidates,
                   unique_candidates, final_show, multiplier, total_exposure,
                   trade_log, v6vars>>

\* one call of record_and_track, from a run of analyzer_V9
LedgerRecordAndTrack ==
    /\ prog = "ledger" /\ runs < MaxRuns
    /\ \E codes \in {<<>>, <<"159915">>}, prices \in PriceData :
       \E out \in {record_and_track(history, codes, prices, today)} :
          /\ history' = out.store
          /\ report' = IF out.raised THEN "traceback" ELSE "tracked"
    /\ runs' = runs + 1
    /\ UNCHANGED <<cfgvars, seriesvars, sumvars, btvars, valvars, prog, pc, todo, bench, last_file, today, db, raw_candidates,
                   unique_candidates, final_show, v5vars, v6vars>>

\* the next day begins
LedgerNextDay ==
    /\ prog = "ledger" /\ today < MaxDay
    /\ today' = today + 1
    /\ UNCHANGED <<cfgvars, seriesvars, sumvars, btvars, valvars, prog, pc, todo, bench, last_file, report, v12vars, v5vars, v6vars,
                   runs>>

InitLedger ==
    /\ prog = "ledger"
    /\ pc = "idle"
    /\ todo = {}
    /\ bench = NoBench
    /\ last_file = NoFileSeen
    /\ report = "none"
    /\ today = MaxDay - 1
    /\ db = [c \in {} |-> DbEntry("", "")]
    /\ raw_candidates = <<>>
    /\ unique_candidates = <<>>
    /\ final_show = <<>>
    /\ history = NoFile
    /\ multiplier = 100
    /\ results = <<>>
    /\ total_exposure = 0
    /\ trade_log = <<>>
    /\ portfolio = <<>>
    /\ mkt_weight = 100
    /\ new_signals = <<>>
    /\ hold_monitor = <<>>
    /\ runs = 0
    /\ elite_pool = {}
    /\ rows_done = 0
    /\ df_after = <<>>
    /\ df_sorted = <<>>
    /\ min_score_show = MIN_SCORE_SHOW
    /\ closes = <<>>
    /\ ind = NoIndicators
    /\ table_data = <<>>
    /\ buy_list = <<>>
    /\ position = 0
    /\ bt_stop_price = NoStop
    /\ order = NoOrder
    /\ bar = NoBarSeen
    /\ cash = 0

NextLedger ==
    \/ LedgerSaveHistory
    \/ LedgerEliteAnalyze
    \/ LedgerRecordAndTrack
    \/ LedgerNextDay

SpecLedger == InitLedger /\ [][NextLedger]_vars

Key(h, i) == <<Cell(h.cols, h.rows[i], "date"), Cell(h.cols, h.rows[i], "code")>>

\* C4: after any number of runs of the history writers (save_history of
\* analyzer_V12, the ledger append of analyzer_V12_Elite) the store holds
\* no two records with the same (date, code).
C4_OneRecordPerKey ==
    \A i, j \in 1..Len(history.rows) : i # j => Key(history, i) # Key(history, j)

\* the line new is the line old, possibly with cells of new columns after it
Kept(old, new) ==
    /\ Len(new) >= Len(old)
    /\ \A k \in 1..Len(old) : new[k] = old[k]

\* C5: a record once written is never changed or removed: after every run
\* of a writer (save_history of analyzer_V12, record_and_track of
\* analyzer_V9) each line the store held is still there with the values it
\* had, also when the store could not be read.
C5_RecordsAreKept ==
    [][\A i \in 1..Len(history.rows) :
          \E j \in 1..Len(history'.rows) : Kept(history.rows[i], history'.rows[j])]_vars

(***************************************************************************)
(* signal_validator.py and signal_validator_v2.py: validate                *)
(***************************************************************************)
MaxBars == 2         \* bars of one data file

Validators == {"validator", "validator_v2"}

Le(a, b) == ~IsNaN(a) /\ ~IsNaN(b) /\ a <= b

\* one bar of a data file: its 收盘 and its 最低
Bar(close, low) == [close |-> close, low |-> low]

Bars ==
    {Bar(21000, 20000),      \* closes above the entry price
     Bar(20000, 19000),      \* closes at the entry price
     Bar(19000, 18600),      \* the low touches the stop
     Bar(21000, 18000),      \* falls below the stop and closes above the entry
     Bar(21000, NaN),        \* no low
     Bar(NaN, 19000)}        \* no close

\* what validate finds at DATA_DIR/<code>.csv. The bars are in the order
\* sort_values('日期') leaves them: one a day, the first on day MaxDay - 1
DataFiles ==
    {[kind |-> "missing", bars |-> <<>>], [kind |-> "unreadable", bars |-> <<>>]}
    \cup {[kind |-> "ok", bars |-> b] : b \in UNION {[1..n -> Bars] : n \in 0..MaxBars}}

BarDay(i) == MaxDay - 2 + i

\* df_d[df_d['日期'] > signal_date]
after(f, signal_date) ==
    Pick(f.bars, {i \in 1..Len(f.bars) : BarDay(i) > signal_date})

\* df_after['最低'].min(), which skips NaN
lowest(bars) ==
    LET L == {bars[i].low : i \in 1..Len(bars)} \ {NaN}
    IN  IF L = {} THEN NaN ELSE CHOOSE m \in L : \A x \in L : m <= x

classify_profit_first(bars, entry_p, stop_p) ==
    IF bars = <<>> THEN [status |-> "observing", last_p |-> entry_p]
    ELSE IF Gt(bars[Len(bars)].close, entry_p)
    THEN [status |-> "winning", last_p |-> bars[Len(bars)].close]
    ELSE IF Le(lowest(bars), stop_p)
    THEN [status |-> "stopped", last_p |-> stop_p]
    ELSE [status |-> "trapped", last_p |-> bars[Len(bars)].close]

classify_strict_stop(bars, entry_p, stop_p) ==
    IF bars = <<>> THEN [status |-> "observing", last_p |-> entry_p]
    ELSE IF Lt(lowest(bars), stop_p)
    THEN [status |-> "stopped", last_p |-> stop_p]
    ELSE IF Gt(bars[Len(bars)].close, entry_p)
    THEN [status |-> "winning", last_p |-> bars[Len(bars)].close]
    ELSE [status |-> "trapped", last_p |-> bars[Len(bars)].close]

\* status and last_p of one record: "observing" is ⏳ 观察中, "stopped" is
\* ❌ 已止损, "winning" is ✅ 盈利中, "trapped" is 📉 被套中
classify(bars, entry_p, stop_p) ==
    IF bars = <<>> THEN [status |-> "observing", last_p |-> entry_p]
    ELSE IF Le(lowest(bars), stop_p)
    THEN [status |-> "stopped", last_p |-> stop_p]
    ELSE IF Gt(bars[Len(bars)].close, entry_p)
    THEN [status |-> "winning", last_p |-> bars[Len(bars)].close]
    ELSE [status |-> "trapped", last_p |-> bars[Len(bars)].close]

\* None
Missing == [t |-> "none", s |-> "", n |-> 0]

\* row.get(c, default)
Get(cols, r, c, default) == IF c \in Range(cols) THEN Cell(cols, r, c) ELSE default

\* float(x): raises on None and on text
float(x) == [raised |-> x.t \in {"str", "none"}, v |-> IF x.t = "num" THEN x.n ELSE NaN]

\* entry_p: signal_validator has no default for 'price', signal_validator_v2 has 0
entry_price(p, cols, r) ==
    float(Get(cols, r, "entry_price",
              Get(cols, r, "price", IF p = "validator" THEN Missing ELSE Num(0))))

\* stop_p; signal_validator_v2 takes entry_p * 0.93 for a stop of 0 (exact
\* in ticks for the entry prices of the stores below)
stop_price(p, cols, r) ==
    IF p = "validator" THEN float(Get(cols, r, "stop", Missing))
    ELSE LET e == entry_price(p, cols, r).v
             x == float(Get(cols, r, "stop", Num(0)))
         IN  IF ~x.raised /\ x.v = 0
             THEN [raised |-> FALSE, v |-> IF IsNaN(e) THEN NaN ELSE (93 * e) \div 100]
             ELSE x

\* round(x, 3)
round3(x) == IF IsNaN(x) THEN NaN ELSE 10 * RoundHalfEven(x, 10)

\* round(curr_ret, 2), in 0.01 percent. With an entry price of 0
\* signal_validator divides by zero: two Python floats raise, a numpy
\* float gives inf or nan
curr_ret(p, c, entry_p) ==
    IF c.status = "observing" THEN [raised |-> FALSE, v |-> 0]
    ELSE IF entry_p = 0
    THEN IF p = "validator_v2" THEN [raised |-> FALSE, v |-> 0]
         ELSE [raised |-> c.status = "stopped", v |-> NaN]
    ELSE IF IsNaN(entry_p) \/ IsNaN(c.last_p) THEN [raised |-> FALSE, v |-> NaN]
    ELSE [raised |-> FALSE, v |-> RoundHalfEven(10000 * (c.last_p - entry_p), entry_p)]

NoResult ==
    [elite |-> FALSE, date |-> 0, code |-> "", name |-> Empty, entry |-> NaN,
     stop |-> NaN, last_p |-> NaN, ret |-> NaN, status |-> "none"]

\* one iteration of the loop over df_h: whether it appends to results, and
\* what. A row whose code is no text names no data file; every exception
\* ends the iteration
validate_row(p, cols, r, f, pool) ==
    LET code == Cell(cols, r, "code")
        date == Cell(cols, r, "date")
        e == entry_price(p, cols, r)
        s == stop_price(p, cols, r)
    IN  IF code.t # "str" \/ f.kind # "ok" \/ date.t # "num" \/ e.raised \/ s.raised
        THEN [appended |-> FALSE, df_after |-> <<>>, entry |-> NoResult]
        ELSE LET bars == after(f, date.n)
                 c == classify(bars, e.v, s.v)
                 ret == curr_ret(p, c, e.v)
             IN  IF ret.raised
                 THEN [appended |-> FALSE, df_after |-> bars, entry |-> NoResult]
                 ELSE [appended |-> TRUE, df_after |-> bars,
                       entry |-> [elite |-> code.s \in pool, date |-> date.n,
                                  code |-> code.s, name |-> Cell(cols, r, "name"),
                                  entry |-> round3(e.v), stop |-> round3(s.v),
                                  last_p |-> round3(c.last_p), ret |-> ret.v,
                                  status |-> c.status]]

\* sort_values(['身份', '信号日期'], ascending=[False, False]): 🏆精英 first
ListedBefore(a, b) ==
    \/ a.elite /\ ~b.elite
    \/ a.elite = b.elite /\ a.date > b.date

NoAtrFile == [kind |-> "ok", len |-> MIN_BARS, last |-> EliteLast(20000, 19000, 24000, NaN)]

SignalDays == {MaxDay - 2, MaxDay - 1, MaxDay}

\* HISTORY_FILE as the writers leave it, or with its header only
ValidateStores ==
    {NoFile, to_csv([cols |-> V12_COLS, rows |-> <<>>])}
    \cup {save_history(NoFile, <<Allocation("159915")>>, d) : d \in SignalDays}
    \cup {save_history(NoFile, <<Allocation("159915"), Allocation("512880")>>, MaxDay - 1)}
    \cup {elite_append(NoFile, <<EliteSignal("159915", f, MaxDay - 2)>>) :
             f \in {SignalFile, NoAtrFile}}
    \cup {elite_append(save_history(NoFile, <<Allocation("159915")>>, MaxDay - 2),
                       <<EliteSignal("512880", SignalFile, MaxDay - 2)>>)}
    \cup {save_history(elite_append(NoFile, <<EliteSignal("159915", SignalFile, MaxDay - 1)>>),
                       <<Allocation("512880")>>, MaxDay - 1)}
    \cup {record_and_track(NoFile, <<"159915">>, [c \in LedgerCodes |-> NaN],
                           MaxDay - 2).store}

ElitePools == {{}, {"159915"}}

\* validate up to the loop: the ledger is missing, unreadable or (in
\* signal_validator) empty, or the loop begins
ValidateStart ==
    /\ prog \in Validators /\ pc = "start"
    /\ \E pool \in ElitePools :
          IF ~history.exists
          THEN pc' = "done" /\ report' = "noledger" /\ UNCHANGED elite_pool
          ELSE IF ~Readable(history)
          THEN pc' = "done" /\ report' = "unreadable" /\ elite_pool' = pool
          ELSE IF prog = "validator" /\ history.rows = <<>>
          THEN pc' = "done" /\ report' = "empty" /\ elite_pool' = pool
          ELSE pc' = "rows" /\ report' = report /\ elite_pool' = pool
    /\ UNCHANGED <<prog, todo, bench, last_file, today, v12vars, v5vars, v6vars, runs,
                   rows_done, df_after, df_sorted, cfgvars, seriesvars, sumvars, btvars>>

\* one iteration of the loop over df_h
ValidateRow ==
    /\ prog \in Validators /\ pc = "rows" /\ rows_done < Len(history.rows)
    /\ \E df_h \in {read_csv(history)} :
       \E f \in DataFiles :
       \E v \in {validate_row(prog, df_h.cols, df_h.rows[rows_done + 1], f, elite_pool)} :
          /\ df_after' = v.df_after
          /\ results' = IF v.appended THEN Append(results, v.entry) ELSE results
    /\ rows_done' = rows_done + 1
    /\ UNCHANGED <<prog, pc, todo, bench, last_file, report, today, v12vars, multiplier,
                   total_exposure, trade_log, v6vars, runs, elite_pool, df_sorted, cfgvars, seriesvars, sumvars, btvars>>

\* validate after the loop: no report without results
ValidateFinish ==
    /\ prog \in Validators /\ pc = "rows" /\ rows_done = Len(history.rows)
    /\ pc' = "done"
    /\ IF results = <<>>
       THEN report' = "none" /\ UNCHANGED df_sorted
       ELSE report' = "validation" /\ df_sorted' = StableSort(ListedBefore, results)
    /\ UNCHANGED <<prog, todo, bench, last_file, today, v12vars, v5vars, v6vars, runs,
                   elite_pool, rows_done, df_after, cfgvars, seriesvars, sumvars, btvars>>

InitValidate ==
    /\ prog \in Validators
    /\ pc = "start"
    /\ todo = {}
    /\ bench = NoBench
    /\ last_file = NoFileSeen
    /\ report = "none"
    /\ today = MaxDay
    /\ db = [c \in {} |-> DbEntry("", "")]
    /\ raw_candidates = <<>>
    /\ unique_candidates = <<>>
    /\ final_show = <<>>
    /\ history \in ValidateStores
    /\ multiplier = 100
    /\ results = <<>>
    /\ total_exposure = 0
    /\ trade_log = <<>>
    /\ portfolio = <<>>
    /\ mkt_weight = 100
    /\ new_signals = <<>>
    /\ hold_monitor = <<>>
    /\ runs = 0
    /\ elite_pool = {}
    /\ rows_done = 0
    /\ df_after = <<>>
    /\ df_sorted = <<>>
    /\ min_score_show = MIN_SCORE_SHOW
    /\ closes = <<>>
    /\ ind = NoIndicators
    /\ table_data = <<>>
    /\ buy_list = <<>>
    /\ position = 0
    /\ bt_stop_price = NoStop
    /\ order = NoOrder
    /\ bar = NoBarSeen
    /\ cash = 0

NextValidate ==
    \/ ValidateStart
    \/ ValidateRow
    \/ ValidateFinish

SpecValidate == InitValidate /\ [][NextValidate]_vars

(***************************************************************************)
(* Properties of validate                                                  *)
(***************************************************************************)
\* entry_p and stop_p of row i of df_h
EntryOf(df_h, i) == entry_price(prog, df_h.cols, df_h.rows[i]).v
StopOf(df_h, i) == stop_price(prog, df_h.cols, df_h.rows[i]).v

\* entry_p and stop_p of the row the loop visited last
RowEntry == EntryOf(read_csv(history), rows_done)
RowStop == StopOf(read_csv(history), rows_done)

\* the record results ends with
Judged == results[Len(results)]

\* some bar's low is at or below the stop
Touched(bars, stop_p) == \E i \in 1..Len(bars) : Le(bars[i].low, stop_p)

\* every bar has its prices, one closed above the entry price, and no bar
\* up to that one was at the stop
RoseFirst(bars, entry_p, stop_p) ==
    /\ \A k \in 1..Len(bars) : ~IsNaN(bars[k].close) /\ ~IsNaN(bars[k].low)
    /\ \E i \in 1..Len(bars) :
          /\ Gt(bars[i].close, entry_p)
          /\ \A j \in 1..i : ~Le(bars[j].low, stop_p)

C7_TouchedStopIsLoss ==
    [][Len(results') = Len(results) + 1
         => \A df_h \in {read_csv(history')} :
            \A e \in {EntryOf(df_h, rows_done')}, s \in {StopOf(df_h, rows_done')} :
               Touched(df_after', s)
                 => /\ Judged'.status = "stopped"
                    /\ Judged'.last_p = round3(s)
                    /\ Judged'.ret = IF IsNaN(e) THEN NaN
                                     ELSE RoundHalfEven(10000 * (s - e), e)]_vars

C7_Witness ==
    /\ prog \in Validators /\ rows_done > 0 /\ Len(results) = rows_done
    /\ Len(df_after) = 2
    /\ Le(df_after[1].low, RowStop)
    /\ Gt(df_after[2].close, RowEntry)
    /\ ~Le(df_after[2].low, RowStop)
    /\ Judged.status = "stopped" /\ Judged.last_p = RowStop


(***************************************************************************)
(* analyzer_V12.py: analyze_signal and the allocation of one instrument,   *)
(* over a range of last bars and every MIN_SCORE_SHOW that makes a         *)
(* difference (scores are 0..5).  The run is execute after a SAFE gate,    *)
(* with one data file.                                                     *)
(***************************************************************************)
Closes == {10000, 20000, 100000}          \* 1.0, 2.0 and 10.0 yuan

\* ma5, peak_40 and lower_band in percent of the close; atr in ticks
Shapes ==
    [ma5 : {95, 105}, peak : {100, 120}, band : {90, 100},
     avg : {80000000, MIN_AMOUNT, 40000000, NaN}, amount : {80000000, 160000000},
     macd : {0, 2}, rsi : {3004, 5000}, turn : {<<0, 0>>, <<1400, 1000>>},
     atr : {0, 3000, NaN}]

SignalSnapshots ==
    {[close |-> c, ma5 |-> (c * s.ma5) \div 100, peak_40 |-> (c * s.peak) \div 100,
      avg_amount |-> s.avg, amount |-> s.amount, macd_hist |-> s.macd,
      prev_macd_hist |-> 1, rsi |-> s.rsi, lower_band |-> (c * s.band) \div 100,
      turnover_val |-> s.turn[1], avg_turnover |-> s.turn[2], atr |-> s.atr] :
     c \in Closes, s \in Shapes}

\* a file has a turnover column unless both turnover values are 0
SignalFiles ==
    {[kind |-> "ok", len |-> MIN_BARS,
      turnover_col |-> ~(l.turnover_val = 0 /\ l.avg_turnover = 0), last |-> l] :
     l \in SignalSnapshots}
    \cup [kind : {"ok"}, len : {MIN_BARS - 1}, turnover_col : {FALSE},
          last : {V12Last(20000, 19000, 24000, 80000000, 2, 160000000)}]

MinScores == 0..6

\* a visited file with the last row analyze_signal read of it
FileRead(code, f) ==
    [code |-> code, kind |-> f.kind, len |-> f.len, turnover_col |-> f.turnover_col,
     last |-> calculate_all_metrics(f)]

SignalScan ==
    /\ prog = "V12" /\ pc = "scan" /\ todo # {}
    /\ \E code \in todo, f \in SignalFiles :
          /\ last_file' = FileRead(code, f)
          /\ Scan(code, f)

InitSignal ==
    /\ prog = "V12"
    /\ pc = "scan"
    /\ todo = {"159915"}
    /\ bench = NoBench
    /\ last_file = NoFileSeen
    /\ report = "none"
    /\ today = MaxDay
    /\ db = [c \in Codes |-> DbEntry("etf", "bank")]
    /\ raw_candidates = <<>>
    /\ unique_candidates = <<>>
    /\ final_show = <<>>
    /\ history = NoFile
    /\ multiplier = 100
    /\ results = <<>>
    /\ total_exposure = 0
    /\ trade_log = <<>>
    /\ portfolio = <<>>
    /\ mkt_weight = 100
    /\ new_signals = <<>>
    /\ hold_monitor = <<>>
    /\ runs = 0
    /\ elite_pool = {}
    /\ rows_done = 0
    /\ df_after = <<>>
    /\ df_sorted = <<>>
    /\ min_score_show \in MinScores
    /\ closes = <<>>
    /\ ind = NoIndicators
    /\ table_data = <<>>
    /\ buy_list = <<>>
    /\ position = 0
    /\ bt_stop_price = NoStop
    /\ order = NoOrder
    /\ bar = NoBarSeen
    /\ cash = 0

NextSignal ==
    \/ SignalScan
    \/ V12Finish

SpecSignal == InitSignal /\ [][NextSignal]_vars

\* the file of the run was read and analyze_signal gave it this score
Scored(n) ==
    /\ last_file.kind = "ok" /\ last_file.len >= MIN_BARS
    /\ Score(last_file.last) = n

\* the value of the column c in the i-th record of the history store
Stored(i, c) == Cell(history.cols, history.rows[i], c)

\* C11: no instrument that analyze_signal scores below MIN_SCORE_SHOW is in
\* final_show or in the records save_history wrote, whatever the minimum is
C11_BelowMinimumNeverShown ==
    pc = "done" =>
        /\ \A i \in 1..Len(final_show) : final_show[i].score >= min_score_show
        /\ \A i \in 1..Len(history.rows) : Stored(i, "score").n >= min_score_show
        /\ (\E n \in 0..5 : n < min_score_show /\ Scored(n)) =>
               final_show = <<>> /\ ~history.exists

C11_Witness ==
    /\ pc = "done" /\ min_score_show = 5 /\ Scored(4)
    /\ ~Lt(last_file.last.avg_amount, MIN_AMOUNT)
    /\ last_file.last.close = 20000
    /\ final_show = <<>>


\* the run's file gave a candidate (one file: it is raw_candidates[1])
Returned == raw_candidates # <<>>

\* C12: every candidate analyze_signal returns has stop < price, with the
\* ATR of the last bar or with the fallback volatility
C12_StopBelowPrice ==
    \A i \in 1..Len(raw_candidates) : raw_candidates[i].stop < raw_candidates[i].price

C12_Witness ==
    /\ Returned /\ IsNaN(last_file.last.atr)
    /\ raw_candidates[1].price = 20000 /\ raw_candidates[1].stop = 17000

\* C13: every candidate has 0 <= theory_invest <= TOTAL_CAPITAL *
\* SINGLE_MAX_WEIGHT; the uncapped amount is (TOTAL_CAPITAL * 0.02) /
\* max(price - stop, 0.001), returned unchanged when it is below the cap
C13_InvestWithinCap ==
    \A i \in 1..Len(raw_candidates) :
        LET c == raw_candidates[i]
            gap == IF c.price - c.stop > 10 THEN c.price - c.stop ELSE 10
            uncapped == Rat(((TOTAL_CAPITAL * 2) \div 100) * 10000, gap)
            cap == <<(TOTAL_CAPITAL * SINGLE_MAX_WEIGHT_PCT) \div 100, 1>>
        IN  /\ c.theory_invest[1] >= 0 /\ c.theory_invest[2] > 0
            /\ ~RLess(cap, c.theory_invest)
            /\ RLess(uncapped, cap) => c.theory_invest = uncapped

\* price 10.0, stop 9.1: 200 / 0.9 = 222.2, below the cap of 2500
C13_Witness ==
    /\ Returned
    /\ raw_candidates[1].price = 100000 /\ raw_candidates[1].stop = 91000
    /\ raw_candidates[1].theory_invest = <<2000, 9>>

\* C14: stop = min(price - 3.0 * ATR14, price * 0.93), with price * 0.05 for
\* an undefined ATR; ATR 0.30 at price 10.0 gives the stop 9.1
C14_StopFormula ==
    Returned =>
        LET l == last_file.last
            atr14 == IF IsNaN(l.atr) THEN (5 * l.close) \div 100 ELSE l.atr
            by_atr == l.close - 3 * atr14
            hard == (93 * l.close) \div 100
        IN  /\ raw_candidates[1].price = l.close
            /\ raw_candidates[1].stop = (IF by_atr < hard THEN by_atr ELSE hard)
            /\ (l.close = 100000 /\ l.atr = 3000) => raw_candidates[1].stop = 91000

C14_Witness ==
    /\ Returned
    /\ last_file.last.close = 100000 /\ last_file.last.atr = 3000
    /\ raw_candidates[1].stop = 91000

\* the four conditions of the score, counted
Conditions(l) ==
    b2i(l.macd_hist > l.prev_macd_hist)
    + b2i(~IsNaN(l.rsi) /\ l.rsi < 4000)
    + b2i(~IsNaN(l.close) /\ ~IsNaN(l.lower_band) /\ 100 * l.close < 105 * l.lower_band)
    + b2i(\/ ~IsNaN(l.amount) /\ ~IsNaN(l.avg_amount) /\ 10 * l.amount > 11 * l.avg_amount
          \/ /\ ~IsNaN(l.turnover_val) /\ ~IsNaN(l.avg_turnover)
             /\ 10 * l.turnover_val > 13 * l.avg_turnover)

\* close above the 5-bar MA and the 40-bar drawdown below -4%
GatePasses(l) ==
    /\ ~IsNaN(l.close) /\ ~IsNaN(l.ma5) /\ l.close > l.ma5
    /\ 100 * (l.close - l.peak_40) < (-4) * (l.peak_40 + 1)

\* C15: when the base gate fails the score stays 0 and no candidate is
\* returned (MIN_SCORE_SHOW as configured); when it passes the score is 1 +
\* the number of the four conditions that hold; the score is in 0..5
C15_ScoreCountsConditions ==
    /\ (min_score_show = MIN_SCORE_SHOW /\ last_file.kind = "ok"
          /\ ~GatePasses(last_file.last)) => ~Returned
    /\ Returned =>
          /\ raw_candidates[1].score \in 0..5
          /\ raw_candidates[1].score =
                (IF GatePasses(last_file.last) THEN 1 + Conditions(last_file.last) ELSE 0)

\* a gate-passing bar with two of the four conditions, shown at minimum 3
C15_Witness ==
    /\ Returned /\ GatePasses(last_file.last)
    /\ Conditions(last_file.last) = 2 /\ raw_candidates[1].score = 3


\* C16: analyze_signal returns a candidate only when the last bar's 5-bar
\* average amount is defined and strictly above MIN_AMOUNT (with
\* MIN_SCORE_SHOW as configured)
C16_LiquidityGate ==
    (min_score_show = MIN_SCORE_SHOW /\ Returned) =>
        /\ ~IsNaN(last_file.last.avg_amount)
        /\ last_file.last.avg_amount > MIN_AMOUNT


(***************************************************************************)
(* analyzer_V12.py: execute on enough candidates for the capital scaling   *)
(* to act.  Every file is of another sector, so the dedup keeps them all;  *)
(* the files are visited in the order of CodePool.                         *)
(***************************************************************************)
MaxPicks == 5        \* data files of the run

CodePool == <<"159915", "512880", "513100", "518880", "159985", "512690">>
LabelPool == <<"bank", "chip", "gold", "oil", "rare", "wine">>

ScaleCodes == {CodePool[i] : i \in 1..MaxPicks}
ScaleDb == [c \in ScaleCodes |->
               DbEntry("etf", LabelPool[CHOOSE i \in 1..MaxPicks : CodePool[i] = c])]

\* a last bar of score 5 with this close and ATR
ScaleLast(close, atr) ==
    [close |-> close, ma5 |-> (95 * close) \div 100, peak_40 |-> (120 * close) \div 100,
     avg_amount |-> 80000000, amount |-> 160000000, macd_hist |-> 2,
     prev_macd_hist |-> 1, rsi |-> 3004, lower_band |-> close, turnover_val |-> 0,
     avg_turnover |-> 0, atr |-> atr]

ScaleFiles ==
    [kind : {"ok"}, len : {MIN_BARS}, turnover_col : {FALSE},
     last : {ScaleLast(10000, 0),          \* 1.0 yuan: 2500 yuan, 25 lots
             ScaleLast(8000, 0),           \* 0.8 yuan: 2500 yuan, 31 lots
             ScaleLast(100000, 3000),      \* 10.0 yuan: 222.2 yuan, no lot
             V12Last(20000, 19000, 24000, 80000000, 0, 80000000)}]    \* score 3

ScaleScan ==
    /\ prog = "V12" /\ pc = "scan" /\ todo # {}
    /\ \E i \in 1..MaxPicks, f \in ScaleFiles :
          /\ CodePool[i] \in todo
          /\ \A j \in 1..(i - 1) : CodePool[j] \notin todo
          /\ last_file' = FileSeen(CodePool[i], f)
          /\ Scan(CodePool[i], f)

InitScale ==
    /\ prog = "V12"
    /\ pc = "scan"
    /\ todo = ScaleCodes
    /\ bench = NoBench
    /\ last_file = NoFileSeen
    /\ report = "none"
    /\ today = MaxDay
    /\ db = ScaleDb
    /\ raw_candidates = <<>>
    /\ unique_candidates = <<>>
    /\ final_show = <<>>
    /\ history = NoFile
    /\ multiplier = 100
    /\ results = <<>>
    /\ total_exposure = 0
    /\ trade_log = <<>>
    /\ portfolio = <<>>
    /\ mkt_weight = 100
    /\ new_signals = <<>>
    /\ hold_monitor = <<>>
    /\ runs = 0
    /\ elite_pool = {}
    /\ rows_done = 0
    /\ df_after = <<>>
    /\ df_sorted = <<>>
    /\ min_score_show = MIN_SCORE_SHOW
    /\ closes = <<>>
    /\ ind = NoIndicators
    /\ table_data = <<>>
    /\ buy_list = <<>>
    /\ position = 0
    /\ bt_stop_price = NoStop
    /\ order = NoOrder
    /\ bar = NoBarSeen
    /\ cash = 0

NextScale ==
    \/ ScaleScan
    \/ V12Finish

SpecScale == InitScale /\ [][NextScale]_vars

\* scale_factor = min(1.0, TOTAL_CAPITAL / (total_needed + 0.001))
scale_factor(total) ==
    IF Scaled(total)
    THEN Rat(TOTAL_CAPITAL * 1000 * total[2], 1000 * total[1] + total[2])
    ELSE <<1, 1>>

\* C17: the scale-and-floor step runs twice; a candidate that got no lot in
\* the first pass adds nothing to the second pass's sum, so the second
\* scale_factor is at least the first, no lot count decreases between the
\* passes, and a candidate without a lot after the first pass stays so
C17_SecondPassNeverLowers ==
    [][(pc = "scan" /\ pc' = "done" /\ raw_candidates # <<>>) =>
         \A d \in {unique_of(raw_candidates)} :
         \A p1 \in {ScalePass(d)} :
         \A p2 \in {unique_candidates'} :
            /\ p2 = ScalePass(p1)
            /\ \A k \in 1..Len(p1) :
                  /\ p1[k].final_lots < 1 =>
                        p1[k].theory_invest = <<0, 1>> /\ p2[k].final_lots = 0
                  /\ p2[k].final_lots >= p1[k].final_lots
            /\ ~RLess(scale_factor(TotalNeeded(p1, Len(p1))),
                      scale_factor(TotalNeeded(d, Len(d))))]_vars

\* five candidates of 10222.2 yuan: the first pass scales by 0.978 and gives
\* the 10-yuan candidate no lot; the second scales by 0.9999999 and the
\* 0.8-yuan candidate goes from 30 lots to 31
C17_Witness ==
    /\ pc = "done" /\ Len(unique_candidates) = 5
    /\ \E p1 \in {ScalePass(unique_of(raw_candidates))} :
          /\ Scaled(TotalNeeded(unique_of(raw_candidates), 5))
          /\ \E k \in 1..5 : p1[k].final_lots = 0 /\ unique_candidates[k].final_lots = 0
          /\ \E k \in 1..5 : p1[k].final_lots = 30 /\ unique_candidates[k].final_lots = 31

\* C18: every allocation in final_show and every record save_history
\* wrote has final_lots >= 1; a candidate with fewer is in neither
C18_OnlyWholeLotsShown ==
    pc = "done" =>
        /\ \A i \in 1..Len(final_show) : final_show[i].final_lots >= 1
        /\ \A i \in 1..Len(history.rows) : Stored(i, "lots").n >= 1
        /\ \A k \in 1..Len(unique_candidates) :
              unique_candidates[k].final_lots < 1 =>
                 /\ \A i \in 1..Len(final_show) :
                        final_show[i].code # unique_candidates[k].code
                 /\ \A i \in 1..Len(history.rows) :
                        Stored(i, "code") # Str(unique_candidates[k].code)

C18_Witness ==
    /\ pc = "done"
    /\ \E k \in 1..Len(unique_candidates) : unique_candidates[k].final_lots < 1
    /\ final_show # <<>> /\ history.exists


(***************************************************************************)
(* analyzer_V12.py: check_streak, on the stores the writers of             *)
(* signal_history.csv leave: none, records of save_history, lines of       *)
(* analyzer_V12_Elite, and an Elite line appended to save_history's file   *)
(* (13 cells under a header of 11), which pd.read_csv rejects.             *)
(***************************************************************************)
StreakCodes == {"159915", "512880"}

StreakRow(day, code) ==
    <<Num(day), Str(code), Str("etf"), Str("bank"), Num(20000), Num(18600),
      Num(300), Num(0), Num(-167), Num(4), Num(7)>>

StreakLine(day, code) ==
    EliteLine([date |-> day, code |-> code, name |-> "etf", price |-> 20000,
               stop |-> 18600, dd |-> -1667])

StreakStores ==
    {NoFile}
    \cup {to_csv([cols |-> V12_COLS, rows |-> <<StreakRow(d, c)>>]) :
             d \in 1..MaxDay, c \in StreakCodes}
    \cup {to_csv([cols |-> V12_COLS, rows |-> <<StreakRow(d, "512880"), StreakRow(e, "159915")>>]) :
             d \in 1..MaxDay, e \in {1, MaxDay}}
    \cup {elite_append(NoFile, <<[date |-> d, code |-> "159915", name |-> "etf",
                                  price |-> 20000, stop |-> 18600, dd |-> -1667]>>) :
             d \in 1..MaxDay}
    \cup {[exists |-> TRUE, cols |-> V12_COLS,
           rows |-> <<StreakRow(MaxDay - 1, "159915"), StreakLine(MaxDay - 1, "159915")>>]}

StreakFiles ==
    [kind : {"ok"}, len : {MIN_BARS}, turnover_col : {FALSE},
     last : {V12Last(20000, 19000, 24000, 80000000, 2, 160000000),    \* 7 lots
             V12Last(20000, 19000, 24000, 80000000, 0, 80000000)}]    \* score 3

StreakScan ==
    /\ prog = "V12" /\ pc = "scan" /\ todo # {}
    /\ \E code \in todo, f \in StreakFiles :
          /\ last_file' = FileSeen(code, f)
          /\ Scan(code, f)

InitStreak ==
    /\ prog = "V12"
    /\ pc = "scan"
    /\ todo = {"159915"}
    /\ bench = NoBench
    /\ last_file = NoFileSeen
    /\ report = "none"
    /\ today = MaxDay
    /\ db = [c \in Codes |-> DbEntry("etf", "bank")]
    /\ raw_candidates = <<>>
    /\ unique_candidates = <<>>
    /\ final_show = <<>>
    /\ history \in StreakStores
    /\ multiplier = 100
    /\ results = <<>>
    /\ total_exposure = 0
    /\ trade_log = <<>>
    /\ portfolio = <<>>
    /\ mkt_weight = 100
    /\ new_signals = <<>>
    /\ hold_monitor = <<>>
    /\ runs = 0
    /\ elite_pool = {}
    /\ rows_done = 0
    /\ df_after = <<>>
    /\ df_sorted = <<>>
    /\ min_score_show = MIN_SCORE_SHOW
    /\ closes = <<>>
    /\ ind = NoIndicators
    /\ table_data = <<>>
    /\ buy_list = <<>>
    /\ position = 0
    /\ bt_stop_price = NoStop
    /\ order = NoOrder
    /\ bar = NoBarSeen
    /\ cash = 0

NextStreak ==
    \/ StreakScan
    \/ V12Finish

SpecStreak == InitStreak /\ [][NextStreak]_vars

\* the store h can be read and has a line of this code dated within the
\* STREAK_DAYS days before day; lines of both writers begin date, code
RecentlyListed(h, code, day) ==
    /\ h.exists
    /\ \A i \in 2..Len(h.rows) : Len(h.rows[i]) <= Len(h.cols)
    /\ \E i \in 1..Len(h.rows) :
          /\ h.rows[i][2] = Str(code)
          /\ \E d \in (day - STREAK_DAYS)..(day - 1) : h.rows[i][1] = Num(d)

\* C19: check_streak(code) is true exactly when the store holds a record of
\* that code dated d with today - 3 days <= d < today; records dated today
\* never count; a missing or unreadable store gives false
C19_StreakWindow ==
    [][(pc = "scan" /\ pc' = "done") =>
         \A i \in 1..Len(final_show') :
            final_show'[i].is_streak = RecentlyListed(history, final_show'[i].code, today)]_vars

\* a record dated exactly three days back makes the streak
C19_Witness ==
    /\ pc = "done" /\ final_show # <<>>
    /\ final_show[1].is_streak
    /\ \E i \in 1..Len(history.rows) :
          Stored(i, "date") = Num(today - STREAK_DAYS) /\ Stored(i, "code") = Str("159915")


\* C20: an instrument whose bars have no turnover column is still scored,
\* with the turnover feature at zero, in analyzer_V12, analyzer_V5 and
\* analyzer_V6: the loop goes on without an error, and analyzer_V5 lists
\* the instrument (its file has a close above MA5 and a 9% drawdown, which
\* without a turnover ratio is the action "filtered")
C20_NoTurnoverStillScored ==
    [][(InLoop /\ last_file'.kind = "ok" /\ ~last_file'.turnover_col
          /\ last_file'.code # BENCHMARK /\ last_file'.len >= WarmUp)
         => /\ pc' = "scan" /\ report' = report
            /\ prog = "V5" => Pool' # Pool]_vars


(***************************************************************************)
(* analyzer_V12.py: execute with a fund_db that lacks some or all of the   *)
(* codes: db.get(code, {'name': ..., 'index': '行业/主题'}) and the dedup.  *)
(***************************************************************************)
SectorDbs ==
    {[c \in {} |-> DbEntry("", "")],
     [c \in {"159915"} |-> DbEntry("etf", "bank")],
     [c \in {"159915", "512880"} |-> DbEntry("etf", "bank")],
     [c \in Codes |-> DbEntry("etf", IF c = "159915" THEN "bank" ELSE "chip")]}

SectorFiles ==
    [kind : {"ok"}, len : {MIN_BARS}, turnover_col : {FALSE},
     last : {V12Last(20000, 19000, 24000, 80000000, 2, 160000000),    \* score 5
             V12Last(20000, 19000, 24000, 80000000, 2, 80000000),     \* score 4
             V12Last(20000, 19000, 24000, 80000000, 0, 80000000)}]    \* score 3

SectorScan ==
    /\ prog = "V12" /\ pc = "scan" /\ todo # {}
    /\ \E code \in todo, f \in SectorFiles :
          /\ last_file' = FileRead(code, f)
          /\ Scan(code, f)

InitSector ==
    /\ prog = "V12"
    /\ pc = "scan"
    /\ todo = Codes
    /\ bench = NoBench
    /\ last_file = NoFileSeen
    /\ report = "none"
    /\ today = MaxDay
    /\ db \in SectorDbs
    /\ raw_candidates = <<>>
    /\ unique_candidates = <<>>
    /\ final_show = <<>>
    /\ history = NoFile
    /\ multiplier = 100
    /\ results = <<>>
    /\ total_exposure = 0
    /\ trade_log = <<>>
    /\ portfolio = <<>>
    /\ mkt_weight = 100
    /\ new_signals = <<>>
    /\ hold_monitor = <<>>
    /\ runs = 0
    /\ elite_pool = {}
    /\ rows_done = 0
    /\ df_after = <<>>
    /\ df_sorted = <<>>
    /\ min_score_show = MIN_SCORE_SHOW
    /\ closes = <<>>
    /\ ind = NoIndicators
    /\ table_data = <<>>
    /\ buy_list = <<>>
    /\ position = 0
    /\ bt_stop_price = NoStop
    /\ order = NoOrder
    /\ bar = NoBarSeen
    /\ cash = 0

NextSector ==
    \/ SectorScan
    \/ V12Finish

SpecSector == InitSector /\ [][NextSector]_vars

\* the candidates of a list that carry this label
Labelled(s, label) == {k \in 1..Len(s) : s[k].index = label}

\* C21: a candidate whose code has no sector metadata gets the placeholder
\* label and is grouped by it like a mapped one: the file that gave it is
\* in raw_candidates under the placeholder, nothing raises, and the dedup
\* keeps exactly one candidate of the placeholder group, which is shown
\* when it has a lot
C21_UnmappedIsGrouped ==
    /\ \A i \in 1..Len(raw_candidates) :
          raw_candidates[i].index =
             (IF raw_candidates[i].code \in DOMAIN db
              THEN db[raw_candidates[i].code].index ELSE Placeholder)
    /\ (last_file.kind = "ok" /\ last_file.code \notin DOMAIN db
          /\ Score(last_file.last) >= MIN_SCORE_SHOW) =>
             \E i \in 1..Len(raw_candidates) :
                /\ raw_candidates[i].code = last_file.code
                /\ raw_candidates[i].index = Placeholder
    /\ pc = "done" =>
          /\ report \in {"board", "nosignal"}
          /\ Labelled(raw_candidates, Placeholder) # {} =>
                /\ Cardinality(Labelled(unique_candidates, Placeholder)) = 1
                /\ \A k \in Labelled(unique_candidates, Placeholder) :
                      unique_candidates[k].final_lots >= 1 =>
                         \E i \in Labelled(final_show, Placeholder) :
                            final_show[i].code = unique_candidates[k].code

\* two unmapped candidates and a mapped one: one of each label is kept
C21_Witness ==
    /\ pc = "done" /\ Len(raw_candidates) = 3
    /\ Cardinality(Labelled(raw_candidates, Placeholder)) = 2
    /\ Cardinality(Labelled(raw_candidates, "bank")) = 1
    /\ Len(final_show) = 2

(***************************************************************************)
(* The indicator engines on the close column of one series:                *)
(* analyzer_V12 (rsi, dd), analyzer_V12_Elite (dd), analyzer_V6 (RSI,      *)
(* drawdown) and AdvancedStrategy of analyzer_V9 (rsi).                    *)
(* rolling(n) of the code (n = 14, 20, 40) is rolling(Window) here, and a  *)
(* series has the Window + 1 closes that the last bar's rolling values of  *)
(* close and of close.diff() depend on.  Closes are positive prices.       *)
(***************************************************************************)
Window == 3

ClosePrices == {19000, 20000, 21000}

Series == [1..(Window + 1) -> ClosePrices]

RECURSIVE SumOver(_, _)
SumOver(f, S) ==
    IF S = {} THEN 0
    ELSE LET x == CHOOSE y \in S : TRUE IN f[x] + SumOver(f, S \ {x})

\* the positions of the last n rows
LastRows(c, n) == (Len(c) - n + 1)..Len(c)

\* the largest close of the n rows before the last one
rolling_max_shifted(c, n) ==
    CHOOSE m \in {c[i] : i \in LastRows(c, n + 1) \ {Len(c)}} :
        \A i \in LastRows(c, n + 1) \ {Len(c)} : c[i] <= m

\* df['close'].rolling(n).max().iloc[-1]: the window ends at the last row
rolling_max(c, n) ==
    CHOOSE m \in {c[i] : i \in LastRows(c, n)} : \A i \in LastRows(c, n) : c[i] <= m

\* delta = df['close'].diff(), on the rows that have a previous row
diff(c) == [i \in 2..Len(c) |-> c[i] - c[i - 1]]

\* n times the last value of delta.where(delta > 0, 0).rolling(n).mean()
gain_sum(c, n) ==
    SumOver([i \in 2..Len(c) |-> IF diff(c)[i] > 0 THEN diff(c)[i] ELSE 0], LastRows(c, n))

\* n times the last value of (-delta.where(delta < 0, 0)).rolling(n).mean()
loss_sum(c, n) ==
    SumOver([i \in 2..Len(c) |-> IF diff(c)[i] < 0 THEN -diff(c)[i] ELSE 0], LastRows(c, n))

\* 100 - 100 / (1 + gain / loss) of floats: 0 / 0 is NaN and stays NaN,
\* g / 0 is inf and 100 / (1 + inf) is 0
rsi_of_ratio(g, l) ==
    IF l = 0 THEN (IF g = 0 THEN NaNValue ELSE Value(<<100, 1>>))
    ELSE Value(Rat(100 * g, g + l))

\* analyzer_V12: gain / (loss + 0.00001); 0.00001 yuan is a tenth of a tick,
\* so with the window sums G and L the ratio is 10 G / (10 L + n)
V12_rsi(c) == rsi_of_ratio(10 * gain_sum(c, Window), 10 * loss_sum(c, Window) + Window)

\* analyzer_V6: gain / loss
V6_RSI(c) == rsi_of_ratio(gain_sum(c, Window), loss_sum(c, Window))

\* analyzer_V9: gain / loss
V9_rsi(c) == rsi_of_ratio(gain_sum(c, Window), loss_sum(c, Window))

\* analyzer_V12: (close - peak_40) / (peak_40 + 0.0001)
V12_dd(c) == Value(Rat(c[Len(c)] - rolling_max(c, Window), rolling_max(c, Window) + 1))

\* analyzer_V12_Elite: (curr_p - hi40) / hi40
Elite_dd(c) == Value(Rat(c[Len(c)] - rolling_max(c, Window), rolling_max(c, Window)))

\* analyzer_V6: (last['close'] - peak_20) / peak_20
V6_drawdown(c) == Value(Rat(c[Len(c)] - rolling_max(c, Window), rolling_max(c, Window)))

SeriesRest ==
    UNCHANGED <<prog, todo, bench, last_file, report, today, v12vars, v5vars, v6vars,
                runs, valvars, cfgvars, closes, sumvars, btvars>>

V12Series ==
    /\ pc = "series"
    /\ ind' = [by |-> "V12", dd |-> V12_dd(closes), rsi |-> V12_rsi(closes)]
    /\ pc' = "done"
    /\ SeriesRest

EliteSeries ==
    /\ pc = "series"
    /\ ind' = [by |-> "Elite", dd |-> Elite_dd(closes), rsi |-> Absent]
    /\ pc' = "done"
    /\ SeriesRest

V6Series ==
    /\ pc = "series"
    /\ ind' = [by |-> "V6", dd |-> V6_drawdown(closes), rsi |-> V6_RSI(closes)]
    /\ pc' = "done"
    /\ SeriesRest

V9Series ==
    /\ pc = "series"
    /\ ind' = [by |-> "V9", dd |-> Absent, rsi |-> V9_rsi(closes)]
    /\ pc' = "done"
    /\ SeriesRest

InitSeries ==
    /\ prog = "series"
    /\ pc = "series"
    /\ todo = {}
    /\ bench = NoBench
    /\ last_file = NoFileSeen
    /\ report = "none"
    /\ today = MaxDay
    /\ db = [c \in {} |-> DbEntry("", "")]
    /\ raw_candidates = <<>>
    /\ unique_candidates = <<>>
    /\ final_show = <<>>
    /\ history = NoFile
    /\ multiplier = 100
    /\ results = <<>>
    /\ total_exposure = 0
    /\ trade_log = <<>>
    /\ portfolio = <<>>
    /\ mkt_weight = 100
    /\ new_signals = <<>>
    /\ hold_monitor = <<>>
    /\ runs = 0
    /\ elite_pool = {}
    /\ rows_done = 0
    /\ df_after = <<>>
    /\ df_sorted = <<>>
    /\ min_score_show = MIN_SCORE_SHOW
    /\ closes \in Series
    /\ ind = NoIndicators
    /\ table_data = <<>>
    /\ buy_list = <<>>
    /\ position = 0
    /\ bt_stop_price = NoStop
    /\ order = NoOrder
    /\ bar = NoBarSeen
    /\ cash = 0

NextSeries ==
    \/ V12Series
    \/ EliteSeries
    \/ V6Series
    \/ V9Series

SpecSeries == InitSeries /\ [][NextSeries]_vars

\* the last close is the largest close of the peak window
AtPeak == \A i \in LastRows(closes, Window) : closes[i] <= closes[Len(closes)]

\* C22: the drawdown that analyzer_V12, analyzer_V12_Elite and analyzer_V6
\* compute for the last bar is a number, is never positive, and is zero
\* when the last close is the largest close of the peak window.
C22_DrawdownNeverPositive ==
    ind.by \in {"V12", "Elite", "V6"} =>
        /\ ind.dd.kind = "num"
        /\ ind.dd.v[1] <= 0
        /\ ind.dd.v[2] > 0
        /\ AtPeak => ind.dd.v[1] = 0

\* a last bar below the previous close, with a negative drawdown
C22_Witness ==
    /\ ind.by = "V6"
    /\ ind.dd.kind = "num"
    /\ ind.dd.v[1] < 0
    /\ closes[Len(closes)] < closes[Len(closes) - 1]

\* C23: the RSI of the last bar is a number between 0 and 100 in
\* analyzer_V12, analyzer_V6 and analyzer_V9, for a window with no losses
\* and for one with no price change as well.
C23_RsiDefinedInRange ==
    ind.by \in {"V12", "V6", "V9"} =>
        /\ ind.rsi.kind = "num"
        /\ ind.rsi.v[1] >= 0
        /\ ind.rsi.v[1] <= 100 * ind.rsi.v[2]

\* the codes listed in the table under "今日推荐入选" of README.md:
\* one row per entry of results, whatever is_safe says
recommended(res) == {res[i].code : i \in 1..Len(res)}

\* C24: a run of analyzer_V12_Elite.analyze under a benchmark whose latest
\* close is below its 20-bar average appends no row to the ledger and lists
\* no instrument in the report's table of recommended entries.
C24_UnsafeRunEmitsNoEntry ==
    [][(runs' = runs + 1 /\ report' = "elite_risk" /\ Lt(bench'.close, bench'.ma20))
          => /\ history' = history
             /\ recommended(results') = {}]_vars

(***************************************************************************)
(* summary.py.  A string is the sequence of its characters; a Chinese      *)
(* character is written as its syllable ("zhi3" is 指, "zhi4" is 智).      *)
(***************************************************************************)
MaxRows == 2

\* fund names as they stand in the column 名称
FundNames ==
    {<<"hua", "xia", "A", "I">>,                               \* 华夏AI
     <<"A", "I", "zhi4", "neng", "E", "T", "F">>,              \* AI智能ETF
     <<"ren", "gong", "zhi4", "neng", "E", "T", "F">>,         \* 人工智能ETF
     <<"zhong", "zheng", "5", "0", "0", "E", "T", "F">>,       \* 中证500ETF
     <<"zhong", "zheng", "5", "0", "0", "di", "bo">>,          \* 中证500低波
     <<"xin", "pian", "E", "T", "F">>,                         \* 芯片ETF
     <<"ke", "chuang", "xin", "pian", "E", "T", "F">>,         \* 科创芯片ETF
     <<"ban", "dao", "ti", "zhi3", "shu">>,                    \* 半导体指数
     <<"huang", "jin", "E", "T", "F">>,                        \* 黄金ETF
     <<"E", "T", "F">>}                                        \* ETF

\* the words of blacklist that can occur in a name over these characters,
\* in the order of the list
blacklist ==
    << <<"hua", "xia">>, <<"E", "T", "F">>, <<"A">>, <<"C">>, <<"zhi3", "shu">>,
       <<"1", "0", "0">>, <<"5", "0">> >>

\* the items of semantic_map over these characters, in the order of the dict
semantic_map ==
    << [key |-> <<"ke", "chuang">>, val |-> <<"ke", "chuang", "ban", "xi", "lie">>],
       [key |-> <<"xin", "pian">>, val |-> <<"ban", "dao", "ti", "xin", "pian">>],
       [key |-> <<"ban", "dao", "ti">>, val |-> <<"ban", "dao", "ti", "xin", "pian">>],
       [key |-> <<"ren", "gong", "zhi4", "neng">>,
        val |-> <<"A", "I", "ren", "gong", "zhi4", "tong">>],
       [key |-> <<"A", "I">>, val |-> <<"A", "I", "ren", "gong", "zhi4", "tong">>],
       [key |-> <<"zhong", "zheng", "5", "0", "0">>,
        val |-> <<"zhong", "zheng", "5", "0", "0">>] >>

OTHER_FINGERPRINT == <<"qi", "ta">>                            \* "其他"

\* s.startswith(w)
StartsWith(s, w) == Len(s) >= Len(w) /\ SubSeq(s, 1, Len(w)) = w

\* w in s
In(w, s) == \E i \in 1..(Len(s) - Len(w) + 1) : SubSeq(s, i, i + Len(w) - 1) = w

\* s.replace(w, ''): the occurrences of w are cut out from left to right
RECURSIVE replace(_, _)
replace(s, w) ==
    IF s = <<>> THEN <<>>
    ELSE IF StartsWith(s, w) THEN replace(SubSeq(s, Len(w) + 1, Len(s)), w)
    ELSE <<Head(s)>> \o replace(Tail(s), w)

\* for word in blacklist: name = name.replace(word, ''), from the k-th word on
RECURSIVE strip_blacklist(_, _)
strip_blacklist(name, k) ==
    IF k > Len(blacklist) THEN name
    ELSE strip_blacklist(replace(name, blacklist[k]), k + 1)

\* for key, val in semantic_map.items(): if key in name: return val;
\* then name[:4] if name else "其他"
RECURSIVE first_match(_, _)
first_match(name, k) ==
    IF k > Len(semantic_map)
    THEN (IF name = <<>> THEN OTHER_FINGERPRINT
          ELSE SubSeq(name, 1, IF Len(name) < 4 THEN Len(name) ELSE 4))
    ELSE IF In(semantic_map[k].key, name) THEN semantic_map[k].val
    ELSE first_match(name, k + 1)

get_smart_fingerprint(full_name) ==
    first_match(strip_blacklist(replace(replace(full_name, <<"trophy">>), <<"circle">>), 1), 1)

\* the rows of the table of VALIDATION_FILE: 身份, 信号日期, 代码, 名称
SummaryRows ==
    [elite : {TRUE}, date : {MaxDay}, code : {"159915", "512880"}, name : FundNames]
    \cup [elite : {FALSE}, date : {MaxDay}, code : {"159915"}, name : {<<"xin", "pian", "E", "T", "F">>}]
    \cup [elite : {TRUE}, date : {MaxDay - 1}, code : {"159915"}, name : {<<"xin", "pian", "E", "T", "F">>}]

\* df['身份'].str.contains('精英') & (df['信号日期'] == bj_today)
IsTodayElite(r, day) == r.elite /\ r.date = day

\* today_elites with the column 指纹, then drop_duplicates(subset=['指纹'],
\* keep='first'), from row k on; a row keeps its index
RECURSIVE today_buy_list(_, _, _)
today_buy_list(df, day, k) ==
    IF k > Len(df) THEN <<>>
    ELSE (IF /\ IsTodayElite(df[k], day)
             /\ \A j \in 1..(k - 1) :
                   IsTodayElite(df[j], day) =>
                       get_smart_fingerprint(df[j].name) # get_smart_fingerprint(df[k].name)
          THEN << [idx |-> k, code |-> df[k].code, name |-> df[k].name,
                   fingerprint |-> get_smart_fingerprint(df[k].name)] >>
          ELSE <<>>)
         \o today_buy_list(df, day, k + 1)

generate_summary ==
    /\ prog = "summary" /\ pc = "parsed"
    /\ buy_list' = today_buy_list(table_data, today, 1)
    /\ report' = IF buy_list' # <<>> THEN "buy_table" ELSE "no_new_signal"
    /\ pc' = "done"
    /\ UNCHANGED <<prog, todo, bench, last_file, today, v12vars, v5vars, v6vars, runs, valvars,
                   cfgvars, seriesvars, table_data, btvars>>

InitSummary ==
    /\ prog = "summary"
    /\ pc = "parsed"
    /\ todo = {}
    /\ bench = NoBench
    /\ last_file = NoFileSeen
    /\ report = "none"
    /\ today = MaxDay
    /\ db = [c \in {} |-> DbEntry("", "")]
    /\ raw_candidates = <<>>
    /\ unique_candidates = <<>>
    /\ final_show = <<>>
    /\ history = NoFile
    /\ multiplier = 100
    /\ results = <<>>
    /\ total_exposure = 0
    /\ trade_log = <<>>
    /\ portfolio = <<>>
    /\ mkt_weight = 100
    /\ new_signals = <<>>
    /\ hold_monitor = <<>>
    /\ runs = 0
    /\ elite_pool = {}
    /\ rows_done = 0
    /\ df_after = <<>>
    /\ df_sorted = <<>>
    /\ min_score_show = MIN_SCORE_SHOW
    /\ closes = <<>>
    /\ ind = NoIndicators
    /\ table_data \in [1..MaxRows -> SummaryRows]
    /\ buy_list = <<>>
    /\ position = 0
    /\ bt_stop_price = NoStop
    /\ order = NoOrder
    /\ bar = NoBarSeen
    /\ cash = 0

NextSummary == generate_summary

SpecSummary == InitSummary /\ [][NextSummary]_vars

\* the categories of the keys that a name contains
MappedCategories(name) ==
    {semantic_map[k].val : k \in {m \in 1..Len(semantic_map) : In(semantic_map[m].key, name)}}

\* the rows of the table that are among the buy instructions
Bought == {buy_list[k].idx : k \in 1..Len(buy_list)}

\* C25: the fingerprint of a fund name that contains a key of semantic_map
\* is the category the key is mapped to, and two elite signals of today whose
\* names contain the same key have one fingerprint and one buy instruction.
C25_SameKeyOneInstruction ==
    (prog = "summary" /\ pc = "done") =>
        \A i, j \in 1..Len(table_data) :
            (IsTodayElite(table_data[i], today) /\ IsTodayElite(table_data[j], today)) =>
                \A k \in 1..Len(semantic_map) :
                    (In(semantic_map[k].key, table_data[i].name)
                       /\ In(semantic_map[k].key, table_data[j].name)) =>
                        /\ get_smart_fingerprint(table_data[i].name)
                              \in MappedCategories(table_data[i].name)
                        /\ get_smart_fingerprint(table_data[i].name)
                              = get_smart_fingerprint(table_data[j].name)
                        /\ i # j => ~({i, j} \subseteq Bought)

\* sum(s['final_lots'] * 100 * s['price']) over the first n allocations, in
\* hundredths of a yuan (a price is in ticks of 0.0001 yuan)
RECURSIVE TotalUsed(_, _)
TotalUsed(s, n) ==
    IF n = 0 THEN 0 ELSE TotalUsed(s, n - 1) + s[n].final_lots * s[n].price

\* C26: after the two scaling passes the final allocation costs at most
\* TOTAL_CAPITAL in all, and each allocation costs at most TOTAL_CAPITAL *
\* SINGLE_MAX_WEIGHT, its pos_percent being at most 25%.
C26_AllocationWithinCapital ==
    (prog = "V12" /\ pc = "done") =>
        /\ TotalUsed(final_show, Len(final_show)) <= 100 * TOTAL_CAPITAL
        /\ \A i \in 1..Len(final_show) :
              /\ final_show[i].final_lots * final_show[i].price
                    <= TOTAL_CAPITAL * SINGLE_MAX_WEIGHT_PCT
              /\ final_show[i].pos_percent <= 100 * SINGLE_MAX_WEIGHT_PCT

\* five capped candidates ask for 12500 yuan and are scaled by 0.8: the
\* allocation uses at least 95% of the capital
C26_Witness ==
    /\ prog = "V12" /\ pc = "done"
    /\ Scaled(TotalNeeded(unique_of(raw_candidates), Len(unique_of(raw_candidates))))
    /\ Len(final_show) = 5
    /\ 100 * TotalUsed(final_show, Len(final_show)) >= 95 * 100 * TOTAL_CAPITAL

\* C27: on every benchmark input, the file missing or shorter than 20 bars
\* included, the gate of analyzer_V12_Elite.analyze lets new entries proceed
\* exactly when check_market_safe of analyzer_V12 does, which is exactly
\* when the latest close is not below the 20-bar average.
C27_SameRegimeDecision ==
    report \in {"elite_nobench", "elite_safe", "elite_risk"} =>
        /\ (report = "elite_safe") <=> check_market_safe(bench)
        /\ check_market_safe(bench) <=> ~Lt(bench.close, bench.ma20)

(***************************************************************************)
(* analyzer_V5.py: run_analysis on files that pass the filters, with       *)
(* prices and ranges that make each limit of calculate_shares and the      *)
(* total exposure limit act.                                               *)
(***************************************************************************)
ExposureFiles ==
    [kind : {"ok"}, len : {V5_WIN_LEN}, turnover_col : {TRUE},
     last : {V5Last(20000, 19000, 22000, 12, 400, 50),         \* 2.0 yuan, risk 0.08: 12500 shares
             V5Last(20000, 19000, 22000, 12, 100, 50),         \* 2.0 yuan, risk 0.02: capped, 15000 shares
             V5Last(100000, 95000, 110000, 12, 2000, 50),      \* 10.0 yuan, risk 0.4: 2500 shares
             V5Last(1200000, 1150000, 1300000, 12, 60000, 50), \* 120.0 yuan, risk 12.0: under one lot
             V5Last(20000, 19000, 22000, 12, NaN, 50),         \* atr undefined
             V5Last(20000, 21000, 22000, 12, 400, 50)}]        \* below MA5

ExposureScan ==
    /\ prog = "V5" /\ pc = "scan" /\ todo # {}
    /\ \E code \in todo, f \in ExposureFiles : V5Iteration(code, f)

InitExposure ==
    /\ prog = "V5"
    /\ pc = "scan"
    /\ todo = Codes
    /\ bench \in BenchInputs
    /\ last_file = NoFileSeen
    /\ report = "none"
    /\ today = MaxDay
    /\ db = [c \in {} |-> DbEntry("", "")]
    /\ raw_candidates = <<>>
    /\ unique_candidates = <<>>
    /\ final_show = <<>>
    /\ history = NoFile
    /\ multiplier = get_market_weather(bench)
    /\ results = <<>>
    /\ total_exposure = 0
    /\ trade_log = <<>>
    /\ portfolio = <<>>
    /\ mkt_weight = 100
    /\ new_signals = <<>>
    /\ hold_monitor = <<>>
    /\ runs = 0
    /\ elite_pool = {}
    /\ rows_done = 0
    /\ df_after = <<>>
    /\ df_sorted = <<>>
    /\ min_score_show = MIN_SCORE_SHOW
    /\ closes = <<>>
    /\ ind = NoIndicators
    /\ table_data = <<>>
    /\ buy_list = <<>>
    /\ position = 0
    /\ bt_stop_price = NoStop
    /\ order = NoOrder
    /\ bar = NoBarSeen
    /\ cash = 0

NextExposure ==
    \/ ExposureScan
    \/ V5Finish

SpecExposure == InitExposure /\ [][NextExposure]_vars

\* C28: every signal that run_analysis logs as a buy has shares that are a
\* positive multiple of 100, a stop strictly below its price, and a value of
\* at most MAX_SINGLE_POSITION * TOTAL_ASSETS.
C28_LoggedBuyIsSized ==
    \A i \in 1..Len(trade_log) :
        /\ trade_log[i].action = "buy"
        /\ trade_log[i].shares > 0
        /\ trade_log[i].shares % 100 = 0
        /\ Lt(trade_log[i].stop, trade_log[i].price)
        /\ trade_log[i].value <= MAX_SINGLE_POSITION_PCT * TOTAL_ASSETS

\* C29: after each instrument total_exposure is at most MAX_TOTAL_EXPOSURE *
\* TOTAL_ASSETS; an accepted buy adds its value to it, and a buy whose value
\* would carry it over the limit is listed as "full" with 0 shares and
\* leaves it as it was.
C29_ExposureWithinLimit ==
    [][(prog = "V5" /\ pc = "scan" /\ todo' # todo) =>
          /\ total_exposure' <= MAX_TOTAL_EXPOSURE_PCT * TOTAL_ASSETS
          /\ Len(results') = Len(results) => total_exposure' = total_exposure
          /\ Len(results') > Len(results) =>
                \A e \in {results'[Len(results')]} :
                \A would \in {e.price * (calculate_shares(e.price, e.stop, multiplier).shares
                                            \div 100)} :
                   /\ e.action = "buy" =>
                         /\ e.value = would
                         /\ total_exposure' = total_exposure + would
                   /\ e.action = "full" =>
                         /\ total_exposure + would > MAX_TOTAL_EXPOSURE_PCT * TOTAL_ASSETS
                         /\ e.shares = 0
                         /\ total_exposure' = total_exposure
                   /\ e.action \notin {"buy", "full"} => total_exposure' = total_exposure]_vars

\* two buys of 25000 and 30000 yuan, then a third of 25000 yuan that is
\* relabelled
C29_Witness ==
    /\ prog = "V5" /\ pc = "done"
    /\ Len(results) = 3
    /\ results[1].action = "buy" /\ results[2].action = "buy"
    /\ results[3].action = "full" /\ results[3].shares = 0
    /\ total_exposure = 5500000
    /\ Len(trade_log) = 2

(***************************************************************************)
(* etf_backtest_master.py: MultiFactorStrategy under the broker that        *)
(* run_backtest sets up.  A bar is given by what next() reads of it: the   *)
(* target's close, MA5, 40-bar high and ATR, whether the benchmark's close *)
(* is below its 20-bar average, and how many of the four further tests     *)
(* hold.  A bar opens at the previous bar's close; cash is in hundredths   *)
(* of a yuan and sizes are floored to whole units.                         *)
(***************************************************************************)
BT_MIN_SCORE == 4
BT_CASH == 1000000

BtBars ==
    [close : {20000}, ma5 : {19000}, hi40 : {24000}, atr : {800, 0},
     unsafe : BOOLEAN, extra : {2, 3}]
    \cup [close : {17000, 18000, 19000}, ma5 : {19500}, hi40 : {24000}, atr : {800},
          unsafe : BOOLEAN, extra : {3}]

\* the scoring and the buy of next(), reached without a position under a
\* safe benchmark
entry_order(stop, csh, b) ==
    LET dd_low == 1000 * (b.close - b.hi40) < (-4) * (10 * b.hi40 + 1)
        score == IF b.close > b.ma5 /\ dd_low THEN 1 + b.extra ELSE 0
        atr_val == IF b.atr > 0 THEN b.atr ELSE (2 * b.close) \div 100
        a == b.close - 3 * atr_val
        h == (93 * b.close) \div 100
        new_stop == IF a < h THEN a ELSE h
        gap == IF b.close - new_stop > 10 THEN b.close - new_stop ELSE 10
        size == (((csh * 2) \div 100) * 100) \div gap
        max_size == (csh * 25) \div b.close
    IN  IF score >= BT_MIN_SCORE
        THEN [order |-> [kind |-> "buy", size |-> IF size < max_size THEN size ELSE max_size],
              stop |-> StopAt(new_stop)]
        ELSE [order |-> NoOrder, stop |-> stop]

\* what next() does with a position: close it under the stop price;
\* comparing with None raises TypeError
exit_order(pos, stop, b) ==
    IF ~stop.set THEN [order |-> [kind |-> "raise", size |-> 0], stop |-> stop]
    ELSE [order |-> IF b.close < stop.v THEN [kind |-> "close", size |-> pos] ELSE NoOrder,
          stop |-> stop]

\* next() with the benchmark test before the position test
next_gate_first(pos, stop, csh, b) ==
    IF b.unsafe THEN [order |-> NoOrder, stop |-> stop]
    ELSE IF pos # 0 THEN exit_order(pos, stop, b)
    ELSE entry_order(stop, csh, b)

\* MultiFactorStrategy.next: the order it gives and self.stop_price after it
next(pos, stop, csh, b) ==
    IF pos # 0 THEN exit_order(pos, stop, b)
    ELSE IF b.unsafe THEN [order |-> NoOrder, stop |-> stop]
    ELSE entry_order(stop, csh, b)

\* the broker on a new bar: set_coc(False), an order given on a bar is
\* executed at the next bar's open, with 0.1% of slippage
BrokerNext ==
    /\ prog = "backtest" /\ pc = "broker" /\ today < MaxDay
    /\ \E b \in BtBars : bar' = b
    /\ today' = today + 1
    /\ IF order.kind = "buy"
       THEN /\ position' = position + order.size
            /\ cash' = cash - (order.size * (bar.close + bar.close \div 1000)) \div 100
       ELSE IF order.kind = "close"
       THEN /\ position' = 0
            /\ cash' = cash + (position * (bar.close - bar.close \div 1000)) \div 100
       ELSE UNCHANGED <<position, cash>>
    /\ pc' = "next"
    /\ UNCHANGED <<prog, todo, bench, last_file, report, v12vars, v5vars, v6vars, runs, valvars,
                   cfgvars, seriesvars, sumvars, bt_stop_price, order>>

\* one call of next() on the bar
StrategyNext ==
    /\ prog = "backtest" /\ pc = "next"
    /\ \E r \in {next(position, bt_stop_price, cash, bar)} :
          /\ order' = r.order
          /\ bt_stop_price' = r.stop
    /\ pc' = "broker"
    /\ UNCHANGED <<prog, todo, bench, last_file, report, today, v12vars, v5vars, v6vars, runs,
                   valvars, cfgvars, seriesvars, sumvars, position, bar, cash>>

InitBacktest ==
    /\ prog = "backtest"
    /\ pc = "broker"
    /\ todo = {}
    /\ bench = NoBench
    /\ last_file = NoFileSeen
    /\ report = "none"
    /\ today = 0
    /\ db = [c \in {} |-> DbEntry("", "")]
    /\ raw_candidates = <<>>
    /\ unique_candidates = <<>>
    /\ final_show = <<>>
    /\ history = NoFile
    /\ multiplier = 100
    /\ results = <<>>
    /\ total_exposure = 0
    /\ trade_log = <<>>
    /\ portfolio = <<>>
    /\ mkt_weight = 100
    /\ new_signals = <<>>
    /\ hold_monitor = <<>>
    /\ runs = 0
    /\ elite_pool = {}
    /\ rows_done = 0
    /\ df_after = <<>>
    /\ df_sorted = <<>>
    /\ min_score_show = MIN_SCORE_SHOW
    /\ closes = <<>>
    /\ ind = NoIndicators
    /\ table_data = <<>>
    /\ buy_list = <<>>
    /\ position = 0
    /\ bt_stop_price = NoStop
    /\ order = NoOrder
    /\ bar = NoBarSeen
    /\ cash = BT_CASH

NextBacktest ==
    \/ BrokerNext
    \/ StrategyNext

SpecBacktest == InitBacktest /\ [][NextBacktest]_vars

\* C30: on every call of next(), while a position is open no buy order is
\* given and the only order is a close, given exactly when the close is
\* below stop_price, whatever the benchmark test says; stop_price is set
\* whenever a position is open; and without a position an unsafe benchmark
\* lets no order be given.
C30_OpenPositionOnlyExits ==
    [][(prog = "backtest" /\ pc = "next" /\ pc' = "broker") =>
          /\ position # 0 =>
                /\ bt_stop_price.set
                /\ bt_stop_price' = bt_stop_price
                /\ order'.kind \in {"none", "close"}
                /\ (order'.kind = "close") <=> (bar.close < bt_stop_price.v)
                /\ order'.kind = "close" => order'.size = position
          /\ (position = 0 /\ bar.unsafe) => order'.kind = "none"
          /\ order'.kind = "buy" => (position = 0 /\ ~bar.unsafe /\ bt_stop_price'.set)]_vars

\* a position is closed on a bar whose benchmark test says unsafe
C30_Witness ==
    /\ prog = "backtest" /\ pc = "broker"
    /\ position > 0 /\ bt_stop_price.set
    /\ bar.unsafe /\ bar.close < bt_stop_price.v
    /\ order.kind = "close"

====
